---- MODULE Spec2Model ----
(***************************************************************************)
(* The training-data curation core of uroboro (src/src/egg_system.py):     *)
(* EggSpecialization, EternalEgg and EggFarm with its one-file-per-egg     *)
(* persistence.                                                            *)
(*                                                                         *)
(* Conventions of the model                                                *)
(*  - A quality score is a number of tenths (7.0 is 70), so the running    *)
(*    average sum/len is compared exactly by cross-multiplication and      *)
(*    reported as the fraction [num, den].                                 *)
(*  - A text is the sequence of its whitespace-separated words, so         *)
(*    len(text.split()) is Len(text).                                      *)
(*  - Python's None is the empty tuple; a value that may be None is a      *)
(*    tuple.  datetime.now() is the logical clock `now`, read once per     *)
(*    handler and advanced by every handler that stores its reading;       *)
(*    isoformat(t) is the tagged tuple <<"iso", t>>.                       *)
(*  - An egg name is a legal file-name stem; the file <name>.egg.json of   *)
(*    the farm directory is files[name].                                   *)
(*  - The example-count thresholds of the source (target_examples = 2000,  *)
(*    milestones 100/500/1000/2000) are scaled down to TargetExamples and  *)
(*    to 1/1/2/TargetExamples, keeping their order, so that a bounded run  *)
(*    reaches them.                                                        *)
(***************************************************************************)
EXTENDS Integers, Sequences, FiniteSets, TLC

VARIABLES
    eggs,      \* EggFarm.eggs of the farm instance (the AutoFeeder's farm)
    files,     \* the farm directory: stem of <stem>.egg.json -> document
    now,       \* the clock read by datetime.now()
    result,    \* what the last call returned
    feeder,    \* the AutoFeeder: switch, threshold, dedup cache, trend window
    second,    \* the EggFarm of a second process on the same directory
    calls      \* auto_feed_compatible_eggs calls made since the initial state

vars == <<eggs, files, now, result, feeder, second, calls>>

----------------------------------------------------------------------------
(* Bounds                                                                  *)

\* EternalEgg.target_examples (2000 in the source), scaled.
TargetExamples == 2

\* Cap on the number of examples each of two processes holds in its farm.
MaxShared == 2

\* Cap on the number of auto_feed_compatible_eggs calls of a run.
MaxCalls == 2

\* Cap on the number of examples fed into the whole farm in one run.
MaxFeeds == 3

----------------------------------------------------------------------------
(* Program constants                                                       *)

QualityThreshold == 70

SpecTargetExamples == 500

DiversityMin == 3

Generation == 1

None == <<>>

Max(a, b) == IF a >= b THEN a ELSE b

isoformat(t) == <<"iso", t>>

fromisoformat(s) == s[2]

EmptyMap == [n \in {} |-> None]

\* The keys of EternalEgg.specializations, in insertion order.
SkillOrder ==
    << "academic_writing", "ieee_formatting", "anti_ai_patterns",
       "content_transformation", "voice_mimicry", "technical_documentation",
       "research_synthesis" >>

SkillDescriptions ==
    [ academic_writing |-> <<"Academic Writing", "Formal, professional documentation">>,
      ieee_formatting |-> <<"IEEE Formatting", "Academic citations and standards">>,
      anti_ai_patterns |-> <<"Anti-AI Patterns", "Human-like authenticity">>,
      content_transformation |-> <<"Content Transformation", "Structured to prose">>,
      voice_mimicry |-> <<"Voice Mimicry", "Personal writing style">>,
      technical_documentation |-> <<"Technical Documentation", "Clear technical writing">>,
      research_synthesis |-> <<"Research Synthesis", "Multi-source analysis">> ]

Registry == {SkillOrder[i] : i \in DOMAIN SkillOrder}

\* _check_achievements: the example-count ladder (scaled) and the quality ladder.
milestones ==
    << <<1, "First Century">>, <<1, "Data Collector">>,
       <<2, "Training Master">>, <<TargetExamples, "Hatch Ready">> >>

quality_achievements ==
    << <<70, "Quality Threshold">>, <<80, "High Quality">>,
       <<90, "Exceptional Quality">> >>

----------------------------------------------------------------------------
(* EggSpecialization                                                       *)

EggSpecialization(name, description) ==
    [ name |-> name,
      description |-> description,
      target_examples |-> SpecTargetExamples,
      examples_collected |-> 0,
      quality_scores |-> <<>> ]

add_example(spec, quality_score) ==
    [spec EXCEPT !.examples_collected = @ + 1,
                 !.quality_scores = Append(@, quality_score)]

\* min(examples_collected / target_examples, 1.0) as a fraction.
get_progress(spec) ==
    IF spec.examples_collected >= spec.target_examples
    THEN [num |-> 1, den |-> 1]
    ELSE [num |-> spec.examples_collected, den |-> spec.target_examples]

----------------------------------------------------------------------------
(* EternalEgg                                                              *)

EternalEgg(name, focus_areas, egg_type, t) ==
    [ name |-> name,
      egg_type |-> egg_type,
      created_date |-> t,
      focus_areas |-> focus_areas,
      total_examples |-> 0,
      quality_threshold |-> QualityThreshold,
      target_examples |-> TargetExamples,
      specializations |->
          [s \in Registry |->
              EggSpecialization(SkillDescriptions[s][1], SkillDescriptions[s][2])],
      training_examples |-> <<>>,
      metadata |->
          [ hatched |-> FALSE,
            hatch_date |-> None,
            model_path |-> None,
            generation |-> Generation,
            parent_eggs |-> <<>>,
            achievements |-> <<>>,
            last_fed |-> None ] ]

RECURSIVE QualitySum(_)
QualitySum(examples) ==
    IF examples = <<>> THEN 0
    ELSE IF Len(examples) = 1 THEN examples[1].quality_score
    ELSE LET half == Len(examples) \div 2 IN
         QualitySum(SubSeq(examples, 1, half))
             + QualitySum(SubSeq(examples, half + 1, Len(examples)))

\* get_average_quality() as the fraction sum/len, 0.0 for an empty dataset.
get_average_quality(egg) ==
    IF egg.training_examples = <<>>
    THEN [num |-> 0, den |-> 1]
    ELSE [num |-> QualitySum(egg.training_examples),
          den |-> Len(egg.training_examples)]

\* average >= threshold
AtLeast(avg, threshold) == avg.num >= threshold * avg.den

\* len([s for s in specializations.values() if s.examples_collected > 0])
Populated(egg) ==
    {s \in DOMAIN egg.specializations :
        egg.specializations[s].examples_collected > 0}

is_ready_to_hatch_StrictlyMore(egg) ==
    /\ egg.total_examples > egg.target_examples
    /\ AtLeast(get_average_quality(egg), egg.quality_threshold)
    /\ Cardinality(Populated(egg)) >= DiversityMin
    /\ ~egg.metadata.hatched

is_ready_to_hatch_IgnoresHatched(egg) ==
    /\ egg.total_examples >= egg.target_examples
    /\ AtLeast(get_average_quality(egg), egg.quality_threshold)
    /\ Cardinality(Populated(egg)) >= DiversityMin

is_ready_to_hatch(egg) ==
    /\ egg.total_examples >= egg.target_examples
    /\ AtLeast(get_average_quality(egg), egg.quality_threshold)
    /\ Cardinality(Populated(egg)) >= DiversityMin
    /\ ~egg.metadata.hatched

get_overall_progress(egg) ==
    IF egg.total_examples >= egg.target_examples
    THEN [num |-> 1, den |-> 1]
    ELSE [num |-> egg.total_examples, den |-> egg.target_examples]

InSeq(x, seq) == \E i \in DOMAIN seq : seq[i] = x

award_Again(state, reached, achievement) ==
    IF reached
    THEN [ achievements |-> Append(state.achievements, achievement),
           new_achievements |-> Append(state.new_achievements, achievement) ]
    ELSE state

\* One iteration of the loops of _check_achievements.
award(state, reached, achievement) ==
    IF reached /\ ~InSeq(achievement, state.achievements)
    THEN [ achievements |-> Append(state.achievements, achievement),
           new_achievements |-> Append(state.new_achievements, achievement) ]
    ELSE state

RECURSIVE AwardCounts(_, _, _)
AwardCounts(state, total_examples, i) ==
    IF i > Len(milestones) THEN state
    ELSE AwardCounts(award(state, total_examples >= milestones[i][1],
                           milestones[i][2]),
                     total_examples, i + 1)

RECURSIVE AwardQuality(_, _, _)
AwardQuality(state, avg_quality, i) ==
    IF i > Len(quality_achievements) THEN state
    ELSE AwardQuality(award(state, AtLeast(avg_quality, quality_achievements[i][1]),
                            quality_achievements[i][2]),
                      avg_quality, i + 1)

\* Returns the egg with its metadata.achievements extended, and the new ones.
check_achievements(egg) ==
    LET start == [ achievements |-> egg.metadata.achievements,
                   new_achievements |-> <<>> ]
        counted == AwardCounts(start, egg.total_examples, 1)
        done == AwardQuality(counted, get_average_quality(egg), 1)
    IN  [ egg |-> [egg EXCEPT !.metadata.achievements = done.achievements],
          new_achievements |-> done.new_achievements ]

\* The loop `for skill in skill_tags` of feed: the specializations and the
\* growth report after the tags from position i on.
RECURSIVE UpdateSpecializations(_, _, _, _, _)
UpdateSpecializations(specs, growth, skill_tags, quality_score, i) ==
    IF i > Len(skill_tags) THEN [specializations |-> specs, growth_report |-> growth]
    ELSE LET skill == skill_tags[i] IN
         IF skill \in DOMAIN specs
         THEN LET grown == add_example(specs[skill], quality_score) IN
              UpdateSpecializations(
                  [specs EXCEPT ![skill] = grown],
                  Append(growth, <<skill, "+1 example", get_progress(grown)>>),
                  skill_tags, quality_score, i + 1)
         ELSE UpdateSpecializations(specs, growth, skill_tags, quality_score, i + 1)

TrainingExample(a, t) ==
    [ id |-> <<a.input_text, a.output_text, t>>,
      timestamp |-> isoformat(t),
      input |-> a.input_text,
      output |-> a.output_text,
      quality_score |-> a.quality_score,
      skill_tags |-> a.skill_tags,
      user_feedback |-> a.user_feedback,
      token_count |-> Len(a.input_text) + Len(a.output_text) ]

FeedReport(example, egg, growth_report, new_achievements) ==
    [ example_id |-> example.id,
      total_examples |-> egg.total_examples,
      specialization_growth |-> growth_report,
      new_achievements |-> new_achievements,
      hatching_ready |-> is_ready_to_hatch(egg),
      overall_progress |-> get_overall_progress(egg),
      quality_average |-> get_average_quality(egg) ]

feed_CountsPerSkill(egg, a, t) ==
    LET example == TrainingExample(a, t)
        grown == UpdateSpecializations(egg.specializations, <<>>,
                                       a.skill_tags, a.quality_score, 1)
        fed == [egg EXCEPT !.training_examples = Append(@, example),
                           !.total_examples = @ + Len(grown.growth_report),
                           !.metadata.last_fed = isoformat(t),
                           !.specializations = grown.specializations]
        checked == check_achievements(fed)
    IN  [ egg |-> checked.egg,
          report |-> FeedReport(example, checked.egg, grown.growth_report,
                                checked.new_achievements) ]

\* EternalEgg.feed: the egg after the call and the returned report.
feed_Prepends(egg, a, t) ==
    LET example == TrainingExample(a, t)
        grown == UpdateSpecializations(egg.specializations, <<>>,
                                       a.skill_tags, a.quality_score, 1)
        fed == [egg EXCEPT !.training_examples = <<example>> \o @,
                           !.total_examples = @ + 1,
                           !.metadata.last_fed = isoformat(t),
                           !.specializations = grown.specializations]
        checked == check_achievements(fed)
    IN  [ egg |-> checked.egg,
          report |-> FeedReport(example, checked.egg, grown.growth_report,
                                checked.new_achievements) ]

feed(egg, a, t) ==
    LET example == TrainingExample(a, t)
        grown == UpdateSpecializations(egg.specializations, <<>>,
                                       a.skill_tags, a.quality_score, 1)
        fed == [egg EXCEPT !.training_examples = Append(@, example),
                           !.total_examples = @ + 1,
                           !.metadata.last_fed = isoformat(t),
                           !.specializations = grown.specializations]
        checked == check_achievements(fed)
    IN  [ egg |-> checked.egg,
          report |-> FeedReport(example, checked.egg, grown.growth_report,
                                checked.new_achievements) ]

\* max(0, quality_threshold - average) as a fraction.
quality_needed(egg) ==
    LET avg == get_average_quality(egg) IN
    [ num |-> Max(0, egg.quality_threshold * avg.den - avg.num), den |-> avg.den ]

model_name(egg) == <<egg.name, "-v", egg.metadata.generation>>

\* EternalEgg.hatch: the egg after the call and the returned payload.
hatch(egg, t) ==
    IF ~is_ready_to_hatch(egg)
    THEN [ egg |-> egg,
           payload |->
             [ success |-> FALSE,
               reason |-> "Egg not ready for hatching",
               requirements |->
                 [ examples_needed |-> Max(0, egg.target_examples - egg.total_examples),
                   quality_needed |-> quality_needed(egg),
                   diversity_needed |->
                       Max(0, DiversityMin - Cardinality(Populated(egg))) ] ] ]
    ELSE LET path == <<"models/", model_name(egg), ".gguf">>
             hatched == [egg EXCEPT !.metadata.hatched = TRUE,
                                    !.metadata.hatch_date = isoformat(t),
                                    !.metadata.model_path = path]
         IN  [ egg |-> hatched,
               payload |->
                 [ success |-> TRUE,
                   model_name |-> model_name(egg),
                   model_path |-> path,
                   training_dataset_size |-> hatched.total_examples,
                   specializations_learned |-> SkillOrder,
                   estimated_training_time |-> "2-6 hours",
                   hatch_date |-> hatched.metadata.hatch_date ] ]

----------------------------------------------------------------------------
(* EggFarm                                                                 *)

Put(map, key, value) ==
    [k \in DOMAIN map \cup {key} |-> IF k = key THEN value ELSE map[k]]

\* The JSON document save_egg dumps for an egg.
to_document(egg) ==
    [ name |-> egg.name,
      egg_type |-> egg.egg_type,
      created_date |-> isoformat(egg.created_date),
      focus_areas |-> egg.focus_areas,
      total_examples |-> egg.total_examples,
      quality_threshold |-> egg.quality_threshold,
      target_examples |-> egg.target_examples,
      specializations |->
          [s \in DOMAIN egg.specializations |->
              [ examples_collected |-> egg.specializations[s].examples_collected,
                quality_scores |-> egg.specializations[s].quality_scores,
                target_examples |-> egg.specializations[s].target_examples ]],
      training_examples |-> egg.training_examples,
      metadata |-> egg.metadata ]

save_egg_KeepsLonger(farm_eggs, farm_dir, egg_name) ==
    IF egg_name \notin DOMAIN farm_eggs THEN farm_dir
    ELSE IF /\ egg_name \in DOMAIN farm_dir
            /\ Len(farm_dir[egg_name].training_examples)
                  >= Len(farm_eggs[egg_name].training_examples)
    THEN farm_dir
    ELSE Put(farm_dir, egg_name, to_document(farm_eggs[egg_name]))

\* save_egg: the farm directory after the call.
save_egg(farm_eggs, farm_dir, egg_name) ==
    IF egg_name \notin DOMAIN farm_eggs THEN farm_dir
    ELSE Put(farm_dir, egg_name, to_document(farm_eggs[egg_name]))

load_egg_CountersOnly(data) ==
    LET egg == EternalEgg(data.name, data.focus_areas, data.egg_type, 0) IN
    [egg EXCEPT
        !.created_date = fromisoformat(data.created_date),
        !.total_examples = data.total_examples,
        !.quality_threshold = data.quality_threshold,
        !.target_examples = data.target_examples,
        !.training_examples = data.training_examples,
        !.metadata = data.metadata,
        !.specializations =
            [s \in DOMAIN @ |->
                IF s \in DOMAIN data.specializations
                THEN [@[s] EXCEPT
                        !.examples_collected =
                            data.specializations[s].examples_collected]
                ELSE @[s]]]

\* The body of the loop of load_existing_eggs: the egg rebuilt from a document.
load_egg(data) ==
    LET egg == EternalEgg(data.name, data.focus_areas, data.egg_type, 0) IN
    [egg EXCEPT
        !.created_date = fromisoformat(data.created_date),
        !.total_examples = data.total_examples,
        !.quality_threshold = data.quality_threshold,
        !.target_examples = data.target_examples,
        !.training_examples = data.training_examples,
        !.metadata = data.metadata,
        !.specializations =
            [s \in DOMAIN @ |->
                IF s \in DOMAIN data.specializations
                THEN [@[s] EXCEPT
                        !.examples_collected =
                            data.specializations[s].examples_collected,
                        !.quality_scores =
                            data.specializations[s].quality_scores]
                ELSE @[s]]]

\* The keys the try block of load_existing_eggs reads from a document.
DocumentKeys ==
    { "name", "focus_areas", "egg_type", "created_date", "total_examples",
      "quality_threshold", "target_examples", "training_examples", "metadata",
      "specializations" }

\* The try block of load_existing_eggs runs to its end on this file: json.load
\* parses it, every data[...] finds its key, and fromisoformat accepts the date.
Loads(data) ==
    /\ DocumentKeys \subseteq DOMAIN data
    /\ Len(data.created_date) = 2
    /\ data.created_date[1] = "iso"
    /\ \A s \in DOMAIN data.specializations \cap Registry :
          {"examples_collected", "quality_scores"}
              \subseteq DOMAIN data.specializations[s]

load_file_RegistersFirst(farm_eggs, data) ==
    IF Loads(data) THEN Put(farm_eggs, data.name, load_egg(data))
    ELSE IF DocumentKeys \subseteq DOMAIN data
              /\ Len(data.created_date) = 2 /\ data.created_date[1] = "iso"
         THEN Put(farm_eggs, data.name,
                  load_egg([data EXCEPT !.specializations = EmptyMap]))
         ELSE farm_eggs

\* One iteration of the loop of load_existing_eggs: the egg is registered by
\* the last statement of the try block, a file that raises is skipped.
load_file(farm_eggs, data) ==
    IF Loads(data) THEN Put(farm_eggs, data.name, load_egg(data))
    ELSE farm_eggs

\* The loop of load_existing_eggs over the files in the order glob yields them.
RECURSIVE load_files(_, _, _)
load_files(farm_eggs, farm_dir, order) ==
    IF order = <<>> THEN farm_eggs
    ELSE load_files(load_file(farm_eggs, farm_dir[Head(order)]), farm_dir,
                    Tail(order))

\* The orders in which glob may yield the files of a directory.
GlobOrders(farm_dir) ==
    {order \in [1..Cardinality(DOMAIN farm_dir) -> DOMAIN farm_dir] :
        \A i, j \in DOMAIN order : order[i] = order[j] => i = j}

\* load_existing_eggs on a directory in which no two files that load carry the
\* same name, so that the order of the files does not matter.
load_existing_eggs(farm_dir) ==
    load_files(EmptyMap, farm_dir, CHOOSE order \in GlobOrders(farm_dir) : TRUE)

Outcome(farm_eggs, farm_dir, op, egg_name, payload) ==
    [ eggs |-> farm_eggs,
      files |-> farm_dir,
      result |-> [ op |-> op, egg_name |-> egg_name, raised |-> FALSE,
                   payload |-> payload ] ]

spawn_egg_Overwrite(farm_eggs, farm_dir, name, focus_areas, egg_type, t) ==
    LET egg == EternalEgg(name, focus_areas, egg_type, t)
        stored == Put(farm_eggs, name, egg)
    IN  Outcome(stored, save_egg(stored, farm_dir, name), "spawn_egg", name,
                [ success |-> TRUE, egg_name |-> name, egg_type |-> egg_type,
                  focus_areas |-> focus_areas,
                  target_examples |-> egg.target_examples ])

spawn_egg(farm_eggs, farm_dir, name, focus_areas, egg_type, t) ==
    IF name \in DOMAIN farm_eggs
    THEN Outcome(farm_eggs, farm_dir, "spawn_egg", name,
                 [ success |-> FALSE, reason |-> <<"Egg", name, "already exists">> ])
    ELSE LET egg == EternalEgg(name, focus_areas, egg_type, t)
             stored == Put(farm_eggs, name, egg)
         IN  Outcome(stored, save_egg(stored, farm_dir, name), "spawn_egg", name,
                     [ success |-> TRUE, egg_name |-> name, egg_type |-> egg_type,
                       focus_areas |-> focus_areas,
                       target_examples |-> egg.target_examples ])

NotFound(egg_name) == [ success |-> FALSE, reason |-> <<"Egg", egg_name, "not found">> ]

\* What an unguarded self.eggs[egg_name] does on a missing key: it raises.
KeyError(farm_eggs, farm_dir, op, egg_name) ==
    [ eggs |-> farm_eggs,
      files |-> farm_dir,
      result |-> [ op |-> op, egg_name |-> egg_name, raised |-> TRUE,
                   payload |-> [success |-> FALSE] ] ]

FedOutcome(farm_eggs, farm_dir, egg_name, a, t) ==
    LET fed == feed(farm_eggs[egg_name], a, t)
        stored == [farm_eggs EXCEPT ![egg_name] = fed.egg]
    IN  Outcome(stored, save_egg(stored, farm_dir, egg_name), "feed_egg", egg_name,
                [ success |-> TRUE, egg_name |-> egg_name, report |-> fed.report ])

feed_egg_Unguarded(farm_eggs, farm_dir, egg_name, a, t) ==
    IF egg_name \notin DOMAIN farm_eggs
    THEN KeyError(farm_eggs, farm_dir, "feed_egg", egg_name)
    ELSE FedOutcome(farm_eggs, farm_dir, egg_name, a, t)

feed_egg(farm_eggs, farm_dir, egg_name, a, t) ==
    IF egg_name \notin DOMAIN farm_eggs
    THEN Outcome(farm_eggs, farm_dir, "feed_egg", egg_name, NotFound(egg_name))
    ELSE FedOutcome(farm_eggs, farm_dir, egg_name, a, t)

get_stats_summary(egg, t) ==
    [ name |-> egg.name,
      type |-> egg.egg_type,
      age_days |-> t - egg.created_date,
      total_examples |-> egg.total_examples,
      target_examples |-> egg.target_examples,
      overall_progress |-> get_overall_progress(egg),
      quality_average |-> get_average_quality(egg),
      specializations |->
          [s \in Populated(egg) |->
              [ progress |-> get_progress(egg.specializations[s]),
                examples |-> egg.specializations[s].examples_collected ]],
      achievements |-> egg.metadata.achievements,
      hatching_ready |-> is_ready_to_hatch(egg),
      hatched |-> egg.metadata.hatched,
      last_fed |-> egg.metadata.last_fed ]

get_egg_stats(farm_eggs, farm_dir, egg_name, t) ==
    IF egg_name \notin DOMAIN farm_eggs
    THEN Outcome(farm_eggs, farm_dir, "get_egg_stats", egg_name, NotFound(egg_name))
    ELSE Outcome(farm_eggs, farm_dir, "get_egg_stats", egg_name,
                 [ success |-> TRUE,
                   summary |-> get_stats_summary(farm_eggs[egg_name], t) ])

hatch_egg_NeverSaved(farm_eggs, farm_dir, egg_name, t) ==
    IF egg_name \notin DOMAIN farm_eggs
    THEN Outcome(farm_eggs, farm_dir, "hatch_egg", egg_name, NotFound(egg_name))
    ELSE LET hatched == hatch(farm_eggs[egg_name], t)
             stored == [farm_eggs EXCEPT ![egg_name] = hatched.egg]
         IN  Outcome(stored, farm_dir, "hatch_egg", egg_name, hatched.payload)

hatch_egg(farm_eggs, farm_dir, egg_name, t) ==
    IF egg_name \notin DOMAIN farm_eggs
    THEN Outcome(farm_eggs, farm_dir, "hatch_egg", egg_name, NotFound(egg_name))
    ELSE LET hatched == hatch(farm_eggs[egg_name], t)
             stored == [farm_eggs EXCEPT ![egg_name] = hatched.egg]
         IN  Outcome(stored,
                     IF hatched.payload.success
                     THEN save_egg(stored, farm_dir, egg_name)
                     ELSE farm_dir,
                     "hatch_egg", egg_name, hatched.payload)

----------------------------------------------------------------------------
(* Texts                                                                   *)
(*                                                                         *)
(* TLC has no characters, so what the code asks of a word (its lower-case  *)
(* form, its length, the keyword patterns that are substrings of it) is    *)
(* tabulated for the words the model's texts use.  A word of the model     *)
(* holds no '.' except as its last character.                              *)

\* str.lower() of the words that are not lower-case already.
LowerCase ==
    ( "Transform" :> "transform" ) @@ ( "The" :> "the" ) @@
    ( "Summarise" :> "summarise" ) @@ ( "Notes" :> "notes" ) @@
    ( "Write" :> "write" ) @@ ( "Honestly" :> "honestly" ) @@
    ( "Your" :> "your" ) @@ ( "Explain" :> "explain" ) @@
    ( "Academic" :> "academic" ) @@ ( "IEEE" :> "ieee" ) @@
    ( "TABLE" :> "table" ) @@ ( "FIGURE" :> "figure" ) @@ ( "API" :> "api" ) @@
    ( "Citation" :> "citation" ) @@ ( "Style" :> "style" )

Lower(word) == IF word \in DOMAIN LowerCase THEN LowerCase[word] ELSE word

\* len(word) > 4 for a lower-case word.
LongerThanFour(word) ==
    word \in { "transform", "bullet", "implementation", "demonstrates",
               "improvements", "summarise", "notes", "write", "honestly",
               "works", "methodology", "analysis", "results", "voice",
               "style", "hello", "world", "evaluation", "comprehensive",
               "systematic", "explain", "findings.", "capture", "academic",
               "table", "figure", "citation", "format" }

\* AutoFeeder.skill_patterns.
skill_patterns ==
    [ academic_writing |->
        << "academic", "formal", "professional", "research", "methodology",
           "implementation", "results", "analysis", "conclusion", "bibliography" >>,
      ieee_formatting |->
        << "IEEE", "citation", "reference", "TABLE", "FIGURE", "equation",
           "bibliography", "standard", "format" >>,
      anti_ai_patterns |->
        << "authentic", "human", "natural", "conversational", "personal",
           "experience", "actually", "really", "honestly" >>,
      content_transformation |->
        << "bullet", "list", "transform", "structure", "organize",
           "prose", "narrative", "flow", "coherent" >>,
      voice_mimicry |->
        << "voice", "style", "tone", "personality", "characteristic",
           "manner", "approach", "perspective" >>,
      technical_documentation |->
        << "technical", "documentation", "specification", "API", "code",
           "implementation", "system", "architecture", "design" >>,
      research_synthesis |->
        << "synthesis", "analysis", "comparison", "evaluation", "review",
           "literature", "sources", "materials", "findings" >> ]

\* calculate_quality_score: academic_indicators and context_bonuses.
academic_indicators ==
    << "implementation", "analysis", "methodology", "results",
       "evaluation", "comprehensive", "systematic" >>

context_bonuses == << <<"academic", 5>>, <<"sensei", 4>>, <<"research", 3>> >>

Elements(seq) == {seq[i] : i \in DOMAIN seq}

Keywords ==
    UNION {Elements(skill_patterns[s]) : s \in DOMAIN skill_patterns}
        \cup Elements(academic_indicators)
        \cup {context_bonuses[i][1] : i \in DOMAIN context_bonuses}

\* The keywords that are proper substrings of a lower-case word of the model.
Embedded ==
    ( "systematic" :> {"system"} ) @@ ( "findings." :> {"findings"} ) @@
    ( "academic_devlog" :> {"academic"} ) @@ ( "sensei_teach" :> {"sensei"} ) @@
    ( "research_academic" :> {"research", "academic"} )

\* `keyword in word`, for a lower-case word: the comparison is case-sensitive,
\* so a keyword written in upper case is in no lower-case word.
KeywordsIn(word) ==
    (IF word \in Keywords THEN {word} ELSE {})
        \cup (IF word \in DOMAIN Embedded THEN Embedded[word] ELSE {})

\* `keyword in text.lower()`: a keyword holds no blank, so it lies in one word.
OccursIn(keyword, text) ==
    \E i \in DOMAIN text : keyword \in KeywordsIn(Lower(text[i]))

\* set(text.lower().split())
WordSet(text) == {Lower(text[i]) : i \in DOMAIN text}

\* text.count('.'): the number of words that end in a full stop.
Dots(text) == Cardinality({i \in DOMAIN text : text[i] \in {"findings."}})

----------------------------------------------------------------------------
(* EternalEgg.check_data_health                                            *)

RecentExamples == 10

TrendExamples == 20

FreshnessExamples == 100

LastOf(seq, n) ==
    IF Len(seq) <= n THEN seq ELSE SubSeq(seq, Len(seq) - n + 1, Len(seq))

AllButLast(seq, n) ==
    IF Len(seq) <= n THEN <<>> ELSE SubSeq(seq, 1, Len(seq) - n)

\* recent_quality < older_quality - 0.5, on the sums and lengths.
QualityDegraded(examples) ==
    LET recent == IF Len(examples) >= RecentExamples
                  THEN LastOf(examples, RecentExamples) ELSE examples
        older == IF Len(examples) >= TrendExamples
                 THEN AllButLast(examples, RecentExamples) ELSE <<>>
    IN  /\ older # <<>>
        /\ QualitySum(recent) * Len(older)
             < QualitySum(older) * Len(recent) - 5 * Len(recent) * Len(older)

\* The md5 of input + output, taken as the pair itself.
content_hash(example) == <<example.input, example.output>>

repetition_count(examples) ==
    Cardinality({i \in DOMAIN examples :
        \E j \in 1..(i - 1) : content_hash(examples[j]) = content_hash(examples[i])})

skills_represented(examples) ==
    UNION {Elements(examples[i].skill_tags) : i \in DOMAIN examples}

\* context_frequency[word] over the last 100 examples.
context_frequency(examples, word) ==
    LET recent == LastOf(examples, FreshnessExamples) IN
    Cardinality({i \in DOMAIN recent : word \in WordSet(recent[i].input)})

max_frequency(examples) ==
    LET recent == LastOf(examples, FreshnessExamples)
        words == {w \in UNION {WordSet(recent[i].input) : i \in DOMAIN recent} :
                     LongerThanFour(w)}
    IN  IF words = {} THEN 0
        ELSE CHOOSE m \in 0..Len(recent) :
                /\ \E w \in words : context_frequency(examples, w) = m
                /\ \A w \in words : context_frequency(examples, w) <= m

\* The warnings of check_data_health, in the order they are appended.
health_warnings(egg) ==
    LET examples == egg.training_examples IN
    (IF QualityDegraded(examples) THEN <<"Quality degradation detected">> ELSE <<>>)
    \o (IF 10 * repetition_count(examples) > Len(examples)
        THEN <<"High content repetition">> ELSE <<>>)
    \o (IF 10 * Cardinality(skills_represented(examples)) < 3 * 7
        THEN <<"Low skill diversity - risk of overfitting">> ELSE <<>>)
    \o (IF 5 * max_frequency(examples) > Len(examples)
        THEN <<"Overingestion detected - similar contexts repeated">> ELSE <<>>)

check_data_health(egg) ==
    IF egg.training_examples = <<>>
    THEN [ status |-> "healthy", warnings |-> <<>>,
           diversity_score |-> [num |-> 0, den |-> 1],
           freshness_score |-> 10 ]
    ELSE LET warnings == health_warnings(egg) IN
         [ status |-> IF warnings = <<>> THEN "healthy"
                      ELSE IF Len(warnings) <= 2 THEN "warning" ELSE "unhealthy",
           warnings |-> warnings,
           diversity_score |->
               [ num |-> Cardinality(skills_represented(egg.training_examples)),
                 den |-> 7 ],
           freshness_score |->
               IF 5 * max_frequency(egg.training_examples)
                     > Len(egg.training_examples)
               THEN 5 ELSE 10 ]

----------------------------------------------------------------------------
(* AutoFeeder                                                              *)
(*                                                                         *)
(* The feeder's farm is the farm of the model (eggs, files); its own state *)
(* is the record feeder.  Similarities are fractions [num, den].           *)

\* AutoFeeder.__init__, apart from the farm and the patterns.
AutoFeeder ==
    [ feeding_enabled |-> TRUE,
      quality_threshold |-> 60,
      recent_content_cache |-> <<>>,
      quality_history |-> <<>> ]

quality_degradation_threshold == 3

cache_size == 100

quality_window == 20

TrendSamples == 10

RecentSamples == 5

OlderSamples == 15

combined_content(input_text, output_text) == input_text \o output_text

calculate_content_similarity(new_content, existing_content) ==
    LET new_words == WordSet(new_content)
        existing_words == WordSet(existing_content)
    IN  IF new_words = {} \/ existing_words = {}
        THEN [num |-> 0, den |-> 1]
        ELSE [ num |-> Cardinality(new_words \cap existing_words),
               den |-> Cardinality(new_words \cup existing_words) ]

\* similarity > tenths / 10
MoreSimilarThan(similarity, tenths) == 10 * similarity.num > tenths * similarity.den

check_content_freshness(f, input_text, output_text) ==
    LET cache == f.recent_content_cache
        sim(i) == calculate_content_similarity(
                      combined_content(input_text, output_text), cache[i])
        similar_count == Cardinality({i \in DOMAIN cache : MoreSimilarThan(sim(i), 7)})
        too_similar == \E i \in DOMAIN cache : MoreSimilarThan(sim(i), 8)
    IN  IF similar_count > 3
        THEN [ is_fresh |-> FALSE, similar_count |-> similar_count,
               reason |-> "Too many similar items" ]
        ELSE IF too_similar
        THEN [ is_fresh |-> FALSE, similar_count |-> similar_count,
               reason |-> "Content too similar" ]
        ELSE [ is_fresh |-> TRUE, similar_count |-> similar_count, reason |-> "" ]

update_content_cache_Unbounded(f, input_text, output_text) ==
    [ f EXCEPT !.recent_content_cache =
        Append(@, combined_content(input_text, output_text)) ]

update_content_cache_Forgets(f, input_text, output_text) == f

update_content_cache(f, input_text, output_text) ==
    LET appended == Append(f.recent_content_cache,
                           combined_content(input_text, output_text))
    IN  [ f EXCEPT !.recent_content_cache =
            IF Len(appended) > cache_size THEN Tail(appended) ELSE appended ]

RECURSIVE Sum(_)
Sum(seq) == IF seq = <<>> THEN 0 ELSE Head(seq) + Sum(Tail(seq))

\* _check_quality_trend: the feeder with the sample pushed, and the verdict.
check_quality_trend(f, new_quality) ==
    LET appended == Append(f.quality_history, new_quality)
        history == IF Len(appended) > quality_window THEN Tail(appended) ELSE appended
        pushed == [f EXCEPT !.quality_history = history]
        recent_samples == LastOf(history, RecentSamples)
        older_samples == IF Len(history) >= OlderSamples
                         THEN AllButLast(LastOf(history, OlderSamples), RecentSamples)
                         ELSE AllButLast(history, RecentSamples)
        \* older_avg - recent_avg > quality_degradation_threshold
        declining ==
            Sum(older_samples) * Len(recent_samples)
              - Sum(recent_samples) * Len(older_samples)
              > quality_degradation_threshold * Len(older_samples) * Len(recent_samples)
    IN  IF Len(history) < TrendSamples
        THEN [feeder |-> pushed, quality_ok |-> TRUE, reason |-> ""]
        ELSE IF older_samples # <<>> /\ declining
        THEN [feeder |-> pushed, quality_ok |-> FALSE, reason |-> "Quality dropped"]
        ELSE [feeder |-> pushed, quality_ok |-> TRUE, reason |-> ""]

rate_limit_check == [rate_ok |-> TRUE, feeds_this_hour |-> 0, reason |-> ""]

pattern_matches(skill, text) ==
    Cardinality({i \in DOMAIN skill_patterns[skill] :
                    OccursIn(skill_patterns[skill][i], text)})

\* pattern_matches >= max(1, len(patterns) * 0.2)
Relevant(skill, text) ==
    /\ pattern_matches(skill, text) >= 1
    /\ 5 * pattern_matches(skill, text) >= Len(skill_patterns[skill])

RECURSIVE Filter(_, _)
Filter(seq, text) ==
    IF seq = <<>> THEN <<>>
    ELSE (IF Relevant(Head(seq), text) THEN <<Head(seq)>> ELSE <<>>)
            \o Filter(Tail(seq), text)

\* skill_patterns lists the skills in the order of the registry.
detect_skills(text) == Filter(SkillOrder, text)

Min(a, b) == IF a <= b THEN a ELSE b

LongOutput == 100

length_bonus(output_text) ==
    IF Len(output_text) > LongOutput THEN 5
    ELSE IF Len(output_text) > 50 THEN 3 ELSE 0

\* More than three pieces around the full stops, 10 to 25 words a piece.
complexity_bonus(output_text) ==
    LET sentences == Dots(output_text) + 1 IN
    IF /\ sentences > 3
       /\ 10 * sentences <= Len(output_text)
       /\ Len(output_text) <= 25 * sentences
    THEN 3 ELSE 0

academic_score(output_text) ==
    Cardinality({i \in DOMAIN academic_indicators :
                    OccursIn(academic_indicators[i], output_text)})

academic_bonus_Ignored(output_text) == 0

academic_bonus(output_text) == Min(10, 2 * academic_score(output_text))

\* The bonus of the first context that is in the lower-cased command context.
RECURSIVE context_bonus(_, _)
context_bonus(bonuses, command_context) ==
    IF bonuses = <<>> THEN 0
    ELSE IF OccursIn(Head(bonuses)[1], <<command_context>>) THEN Head(bonuses)[2]
    ELSE context_bonus(Tail(bonuses), command_context)

calculate_quality_score_LowBase(input_text, output_text, command_context) ==
    Min(95, 50 + length_bonus(output_text) + complexity_bonus(output_text)
               + academic_bonus(output_text)
               + context_bonus(context_bonuses, command_context))

calculate_quality_score(input_text, output_text, command_context) ==
    Min(95, 70 + length_bonus(output_text) + complexity_bonus(output_text)
               + academic_bonus(output_text)
               + context_bonus(context_bonuses, command_context))

\* EggFarm.list_eggs
list_eggs(farm_eggs) ==
    [ total_eggs |-> Cardinality(DOMAIN farm_eggs),
      eggs |-> [ n \in DOMAIN farm_eggs |->
                   [ type |-> farm_eggs[n].egg_type,
                     progress |-> get_overall_progress(farm_eggs[n]),
                     examples |-> farm_eggs[n].total_examples,
                     quality |-> get_average_quality(farm_eggs[n]),
                     hatched |-> farm_eggs[n].metadata.hatched,
                     hatching_ready |-> is_ready_to_hatch(farm_eggs[n]) ] ],
      hatched_models |->
          Cardinality({n \in DOMAIN farm_eggs : farm_eggs[n].metadata.hatched}) ]

should_feed_egg_SkipsHealth(f, farm_eggs, egg_name, skills) ==
    IF ~f.feeding_enabled THEN FALSE
    ELSE IF egg_name \notin DOMAIN list_eggs(farm_eggs).eggs THEN FALSE
    ELSE IF list_eggs(farm_eggs).eggs[egg_name].hatched THEN FALSE
    ELSE Elements(skills) \cap Elements(farm_eggs[egg_name].focus_areas) # {}

should_feed_egg(f, farm_eggs, egg_name, skills) ==
    IF ~f.feeding_enabled THEN FALSE
    ELSE IF egg_name \notin DOMAIN list_eggs(farm_eggs).eggs THEN FALSE
    ELSE IF list_eggs(farm_eggs).eggs[egg_name].hatched THEN FALSE
    ELSE IF check_data_health(farm_eggs[egg_name]).status = "unhealthy" THEN FALSE
    ELSE Elements(skills) \cap Elements(farm_eggs[egg_name].focus_areas) # {}

\* The result of one call: the feeder, the farm and what the call returns.
FeederOutcome(f, farm_eggs, farm_dir, a, payload) ==
    [ feeder |-> f,
      eggs |-> farm_eggs,
      files |-> farm_dir,
      result |-> [ op |-> "auto_feed_compatible_eggs", egg_name |-> None,
                   raised |-> FALSE, args |-> a, payload |-> payload ] ]

protection_status(freshness_check, quality_trend, overall) ==
    [ freshness_check |-> freshness_check, quality_trend |-> quality_trend,
      rate_limit |-> "pass", overall |-> overall ]

FeedCompatible_CachesPerEgg(f, farm_eggs, farm_dir, a, detected_skills, quality_score, t) ==
    LET fed_names == {n \in DOMAIN farm_eggs :
                        should_feed_egg(f, farm_eggs, n, detected_skills)}
        example == [ input_text |-> a.input_text, output_text |-> a.output_text,
                     skill_tags |-> detected_skills,
                     quality_score |-> quality_score,
                     user_feedback |-> a.user_feedback ]
        fed(n) == feed_egg(farm_eggs, farm_dir, n, example, t)
        stored == [ n \in DOMAIN farm_eggs |->
                      IF n \in fed_names THEN fed(n).eggs[n] ELSE farm_eggs[n] ]
        written == [ n \in DOMAIN farm_dir \cup fed_names |->
                      IF n \in fed_names THEN fed(n).files[n] ELSE farm_dir[n] ]
        fed_eggs == { [ name |-> n, skills |-> detected_skills,
                        quality |-> quality_score,
                        total_examples |-> fed(n).result.payload.report.total_examples,
                        new_achievements |->
                            fed(n).result.payload.report.new_achievements,
                        hatching_ready |->
                            fed(n).result.payload.report.hatching_ready ] :
                      n \in fed_names }
    IN  FeederOutcome(
            IF fed_eggs = {} THEN f
            ELSE IF Cardinality(fed_eggs) = 1
            THEN update_content_cache(f, a.input_text, a.output_text)
            ELSE update_content_cache(
                     update_content_cache(f, a.input_text, a.output_text),
                     a.input_text, a.output_text),
            stored, written, a,
            [ enabled |-> TRUE, fed_eggs |-> fed_eggs,
              detected_skills |-> detected_skills,
              quality_score |-> quality_score,
              total_fed |-> Cardinality(fed_eggs),
              protection_status |-> protection_status("pass", "pass", "pass") ])

FeedCompatible_FirstOnly(f, farm_eggs, farm_dir, a, detected_skills, quality_score, t) ==
    LET compatible == {n \in DOMAIN farm_eggs :
                         should_feed_egg(f, farm_eggs, n, detected_skills)}
        fed_names == IF compatible = {} THEN {}
                     ELSE {CHOOSE n \in compatible : TRUE}
        example == [ input_text |-> a.input_text, output_text |-> a.output_text,
                     skill_tags |-> detected_skills,
                     quality_score |-> quality_score,
                     user_feedback |-> a.user_feedback ]
        fed(n) == feed_egg(farm_eggs, farm_dir, n, example, t)
        stored == [ n \in DOMAIN farm_eggs |->
                      IF n \in fed_names THEN fed(n).eggs[n] ELSE farm_eggs[n] ]
        written == [ n \in DOMAIN farm_dir \cup fed_names |->
                      IF n \in fed_names THEN fed(n).files[n] ELSE farm_dir[n] ]
        fed_eggs == { [ name |-> n, skills |-> detected_skills,
                        quality |-> quality_score,
                        total_examples |-> fed(n).result.payload.report.total_examples,
                        new_achievements |->
                            fed(n).result.payload.report.new_achievements,
                        hatching_ready |->
                            fed(n).result.payload.report.hatching_ready ] :
                      n \in fed_names }
    IN  FeederOutcome(
            IF fed_eggs # {}
            THEN update_content_cache(f, a.input_text, a.output_text) ELSE f,
            stored, written, a,
            [ enabled |-> TRUE, fed_eggs |-> fed_eggs,
              detected_skills |-> detected_skills,
              quality_score |-> quality_score,
              total_fed |-> Cardinality(fed_eggs),
              protection_status |-> protection_status("pass", "pass", "pass") ])

\* The loop over the farm: feed_egg for every egg should_feed_egg accepts.
\* fed_eggs is kept as a set, the order of the list being the order of a dict.
FeedCompatible(f, farm_eggs, farm_dir, a, detected_skills, quality_score, t) ==
    LET fed_names == {n \in DOMAIN farm_eggs :
                        should_feed_egg(f, farm_eggs, n, detected_skills)}
        example == [ input_text |-> a.input_text, output_text |-> a.output_text,
                     skill_tags |-> detected_skills,
                     quality_score |-> quality_score,
                     user_feedback |-> a.user_feedback ]
        fed(n) == feed_egg(farm_eggs, farm_dir, n, example, t)
        stored == [ n \in DOMAIN farm_eggs |->
                      IF n \in fed_names THEN fed(n).eggs[n] ELSE farm_eggs[n] ]
        written == [ n \in DOMAIN farm_dir \cup fed_names |->
                      IF n \in fed_names THEN fed(n).files[n] ELSE farm_dir[n] ]
        fed_eggs == { [ name |-> n, skills |-> detected_skills,
                        quality |-> quality_score,
                        total_examples |-> fed(n).result.payload.report.total_examples,
                        new_achievements |->
                            fed(n).result.payload.report.new_achievements,
                        hatching_ready |->
                            fed(n).result.payload.report.hatching_ready ] :
                      n \in fed_names }
    IN  FeederOutcome(
            IF fed_eggs # {}
            THEN update_content_cache(f, a.input_text, a.output_text) ELSE f,
            stored, written, a,
            [ enabled |-> TRUE, fed_eggs |-> fed_eggs,
              detected_skills |-> detected_skills,
              quality_score |-> quality_score,
              total_fed |-> Cardinality(fed_eggs),
              protection_status |-> protection_status("pass", "pass", "pass") ])

Rejected_Caches(f, farm_eggs, farm_dir, a, reason, status) ==
    FeederOutcome(update_content_cache(f, a.input_text, a.output_text),
        farm_eggs, farm_dir, a,
        [ enabled |-> TRUE, fed_eggs |-> {}, reason |-> reason,
          protection_status |-> status ])

Rejected(f, farm_eggs, farm_dir, a, reason, status) ==
    FeederOutcome(f, farm_eggs, farm_dir, a,
        [ enabled |-> TRUE, fed_eggs |-> {}, reason |-> reason,
          protection_status |-> status ])

auto_feed_compatible_eggs(f, farm_eggs, farm_dir, a, t) ==
    LET freshness == check_content_freshness(f, a.input_text, a.output_text)
        detected_skills == detect_skills(a.input_text \o a.output_text)
        quality_score == calculate_quality_score(a.input_text, a.output_text,
                                                 a.command_context)
        quality_trend == check_quality_trend(f, quality_score)
    IN  IF ~f.feeding_enabled
        THEN FeederOutcome(f, farm_eggs, farm_dir, a,
                 [ enabled |-> FALSE, fed_eggs |-> {},
                   protection_status |-> "disabled" ])
        ELSE IF ~freshness.is_fresh
        THEN Rejected(f, farm_eggs, farm_dir, a,
                 <<"Content protection", freshness.reason>>,
                 protection_status(<<"blocked", freshness.reason>>, "pass", "blocked"))
        ELSE IF ~rate_limit_check.rate_ok
        THEN Rejected(f, farm_eggs, farm_dir, a,
                 <<"Rate limit", rate_limit_check.reason>>,
                 protection_status("pass", "pass", "blocked"))
        ELSE IF detected_skills = <<>>
        THEN Rejected(f, farm_eggs, farm_dir, a,
                 <<"No relevant skills detected">>,
                 protection_status("pass", "pass", "pass"))
        ELSE IF ~quality_trend.quality_ok
        THEN Rejected(quality_trend.feeder, farm_eggs, farm_dir, a,
                 <<"Quality protection", quality_trend.reason>>,
                 protection_status("pass", <<"blocked", quality_trend.reason>>,
                                   "blocked"))
        ELSE IF quality_score < f.quality_threshold
        THEN Rejected(quality_trend.feeder, farm_eggs, farm_dir, a,
                 <<"Quality too low", quality_score>>,
                 protection_status("pass", "pass", "pass"))
        ELSE FeedCompatible(quality_trend.feeder, farm_eggs, farm_dir, a,
                            detected_skills, quality_score, t)

enable_auto_feeding(f) == [f EXCEPT !.feeding_enabled = TRUE]

disable_auto_feeding(f) == [f EXCEPT !.feeding_enabled = FALSE]

\* max(0.0, min(10.0, threshold))
set_quality_threshold(f, threshold) ==
    [f EXCEPT !.quality_threshold = Max(0, Min(100, threshold))]

----------------------------------------------------------------------------
(* The callers: one farm instance on one directory                         *)

EggNames == {"academic-writer", "voice-mimic"}

\* create_academic_egg and create_voice_egg.
SpawnArgs ==
    [ n \in EggNames |->
        IF n = "academic-writer"
        THEN [ focus_areas |-> <<"academic_writing", "ieee_formatting",
                                 "research_synthesis">>,
               egg_type |-> "academic" ]
        ELSE [ focus_areas |-> <<"voice_mimicry", "anti_ai_patterns",
                                 "content_transformation">>,
               egg_type |-> "voice" ] ]

\* The examples fed by the callers of feed_egg: three known skills at 9.0, only
\* an unknown tag at 5.0, an unknown tag and a repeated known one at 9.0.
FeedArgs ==
    { [ input_text |-> <<"Transform", "this", "bullet", "list">>,
        output_text |-> <<"The", "implementation", "demonstrates", "improvements">>,
        skill_tags |-> <<"academic_writing", "ieee_formatting", "research_synthesis">>,
        quality_score |-> 90,
        user_feedback |-> <<"Good academic tone">> ],
      [ input_text |-> <<"Summarise", "the", "notes">>,
        output_text |-> <<"Notes">>,
        skill_tags |-> <<"not_a_skill">>,
        quality_score |-> 50,
        user_feedback |-> None ],
      [ input_text |-> <<"Write", "like", "me">>,
        output_text |-> <<"Honestly", "it", "works">>,
        skill_tags |-> <<"unknown_skill", "voice_mimicry", "voice_mimicry">>,
        quality_score |-> 90,
        user_feedback |-> None ] }

\* The number of examples held by the farm, for the cap MaxFeeds.
RECURSIVE SumOver(_, _)
SumOver(f, S) ==
    IF S = {} THEN 0
    ELSE LET x == CHOOSE y \in S : TRUE IN f[x] + SumOver(f, S \ {x})

TotalFed == SumOver([n \in DOMAIN eggs |-> Len(eggs[n].training_examples)], DOMAIN eggs)

\* The second process before it has constructed a farm.
NoFarm == [eggs |-> EmptyMap, result |-> [op |-> "none"]]

Constructed == [ op |-> "EggFarm", egg_name |-> None, raised |-> FALSE,
                 payload |-> [success |-> TRUE] ]

Init ==
    /\ files = EmptyMap
    /\ eggs = load_existing_eggs(files)
    /\ now = 0
    /\ result = Constructed
    /\ feeder = AutoFeeder
    /\ second = NoFarm
    /\ calls = 0

SpawnEgg ==
    \E name \in EggNames :
        LET outcome == spawn_egg(eggs, files, name, SpawnArgs[name].focus_areas,
                                 SpawnArgs[name].egg_type, now)
        IN  /\ eggs' = outcome.eggs
            /\ files' = outcome.files
            /\ result' = outcome.result
            /\ now' = IF outcome.result.payload.success THEN now + 1 ELSE now
            /\ UNCHANGED <<feeder, second, calls>>

FeedEgg ==
    /\ TotalFed < MaxFeeds
    /\ \E egg_name \in EggNames, a \in FeedArgs :
        LET outcome == feed_egg(eggs, files, egg_name, a, now)
        IN  /\ eggs' = outcome.eggs
            /\ files' = outcome.files
            /\ result' = outcome.result
            /\ now' = IF outcome.result.payload.success THEN now + 1 ELSE now
            /\ UNCHANGED <<feeder, second, calls>>

GetEggStats ==
    \E egg_name \in EggNames :
        LET outcome == get_egg_stats(eggs, files, egg_name, now)
        IN  /\ eggs' = outcome.eggs
            /\ files' = outcome.files
            /\ result' = outcome.result
            /\ now' = now
            /\ UNCHANGED <<feeder, second, calls>>

HatchEgg ==
    \E egg_name \in EggNames :
        LET outcome == hatch_egg(eggs, files, egg_name, now)
        IN  /\ eggs' = outcome.eggs
            /\ files' = outcome.files
            /\ result' = outcome.result
            /\ now' = IF outcome.result.payload.success THEN now + 1 ELSE now
            /\ UNCHANGED <<feeder, second, calls>>

\* A new EggFarm constructed on the same directory replaces the instance.
LoadFarm ==
    /\ eggs' = load_existing_eggs(files)
    /\ result' = Constructed
    /\ UNCHANGED <<files, now, feeder, second, calls>>

Next == SpawnEgg \/ FeedEgg \/ GetEggStats \/ HatchEgg \/ LoadFarm

Spec == Init /\ [][Next]_vars

----------------------------------------------------------------------------
(* A farm constructed on a directory that already holds files              *)

\* The documents save_egg has written for an egg of the callers: as spawned,
\* and after one feed.
Spawned(name) ==
    EternalEgg(name, SpawnArgs[name].focus_areas, SpawnArgs[name].egg_type, 0)

FedOnce(name) ==
    feed(Spawned(name),
         CHOOSE a \in FeedArgs : a.skill_tags[1] = "academic_writing", 1).egg

\* Documents that were written by another version or by hand: a
\* specialization with its own target, counters that disagree with the lists.
Retargeted(data) ==
    [data EXCEPT !.specializations["academic_writing"].target_examples = 250]

Miscounted(data) ==
    [data EXCEPT !.total_examples = 7,
                 !.specializations["ieee_formatting"].examples_collected = 4]

\* Files json.load or the try block fails on: not JSON, a missing key, a date
\* fromisoformat refuses, a specialization entry without its scores.
NotJson == [garbage |-> "{"]

WithoutMetadata(data) == [k \in DOMAIN data \ {"metadata"} |-> data[k]]

BadDate(data) == [data EXCEPT !.created_date = <<"yesterday">>]

HalfSpecialization(data) ==
    [data EXCEPT !.specializations["voice_mimicry"] = [examples_collected |-> 1]]

\* The file names of the directory and the documents each may hold.  The file
\* "broken" carries the name of the egg academic-writer.
LoadStems == EggNames \cup {"broken"}

DocumentsOf(stem) ==
    IF stem = "academic-writer"
    THEN { to_document(Spawned(stem)), to_document(FedOnce(stem)),
           Retargeted(to_document(FedOnce(stem))),
           Miscounted(to_document(FedOnce(stem))) }
    ELSE IF stem = "voice-mimic"
    THEN { to_document(Spawned(stem)), Retargeted(to_document(Spawned(stem))) }
    ELSE { NotJson,
           WithoutMetadata(to_document(Spawned("academic-writer"))),
           BadDate(to_document(FedOnce("academic-writer"))),
           HalfSpecialization(to_document(Spawned("academic-writer"))) }

Directories ==
    UNION { {farm_dir \in [stems -> UNION {DocumentsOf(n) : n \in stems}] :
                \A n \in stems : farm_dir[n] \in DocumentsOf(n)} :
            stems \in SUBSET LoadStems }

\* EggFarm.__init__ on one of the directories, glob yielding any order.
InitLoad ==
    /\ files \in Directories
    /\ \E order \in GlobOrders(files) : eggs = load_files(EmptyMap, files, order)
    /\ now = 2
    /\ result = Constructed
    /\ feeder = AutoFeeder
    /\ second = NoFarm
    /\ calls = 0

\* A new EggFarm on the directory.
LoadDirectory ==
    /\ \E order \in GlobOrders(files) : eggs' = load_files(EmptyMap, files, order)
    /\ result' = Constructed
    /\ UNCHANGED <<files, now, feeder, second, calls>>

\* farm.save_egg(egg_name), which returns nothing.
SaveEgg ==
    \E egg_name \in LoadStems :
        /\ files' = save_egg(eggs, files, egg_name)
        /\ result' = [ op |-> "save_egg", egg_name |-> egg_name,
                       raised |-> FALSE, payload |-> [success |-> TRUE] ]
        /\ UNCHANGED <<eggs, now, feeder, second, calls>>

NextLoad == LoadDirectory \/ SaveEgg

SpecLoad == InitLoad /\ [][NextLoad]_vars

----------------------------------------------------------------------------
(* One AutoFeeder on its farm                                              *)

\* The interactions handed to auto_feed_compatible_eggs: an academic one, with
\* and without a context that earns a bonus, one that is academic and about
\* voice, one without any skill.
Interactions ==
    { [ input_text |-> <<"Summarise", "the", "methodology">>,
        output_text |-> <<"The", "analysis", "results">>,
        command_context |-> "generate_blog",
        user_feedback |-> None ],
      [ input_text |-> <<"Summarise", "the", "methodology">>,
        output_text |-> <<"The", "analysis", "results">>,
        command_context |-> "academic_devlog",
        user_feedback |-> None ],
      [ input_text |-> <<"Write", "the", "methodology">>,
        output_text |-> <<"analysis", "voice", "style">>,
        command_context |-> "generate_social",
        user_feedback |-> None ],
      [ input_text |-> <<"hello">>,
        output_text |-> <<"world">>,
        command_context |-> "generate_social",
        user_feedback |-> None ] }

\* The window of a feeder that has scored nine interactions while its farm
\* held no egg for them: five with the academic context, then four without.
Scored == <<79, 79, 79, 79, 79, 74, 74, 74, 74>>

\* The thresholds given to set_quality_threshold.
Thresholds == {60, 80}

\* The eggs the farm directory may hold when the feeder is constructed: as
\* spawned, hatched after TargetExamples feeds of the academic example of the
\* callers, and fed the same academic interaction by two feeders.
RECURSIVE FeedTimes(_, _, _)
FeedTimes(egg, a, k) ==
    IF k = 0 THEN egg ELSE feed(FeedTimes(egg, a, k - 1), a, k).egg

Hatched(name) ==
    hatch(FeedTimes(Spawned(name),
                    CHOOSE a \in FeedArgs : a.skill_tags[1] = "academic_writing",
                    TargetExamples),
          TargetExamples + 1).egg

Overfed(name) ==
    FeedTimes(Spawned(name),
              [ input_text |-> <<"Summarise", "the", "methodology">>,
                output_text |-> <<"The", "analysis", "results">>,
                skill_tags |-> <<"academic_writing">>,
                quality_score |-> 74,
                user_feedback |-> None ],
              2)

EggsOf(name) ==
    IF name = "academic-writer"
    THEN {Spawned(name), Hatched(name), Overfed(name)}
    ELSE {Spawned(name)}

Farms ==
    UNION { {farm_eggs \in [names -> UNION {EggsOf(n) : n \in names}] :
                \A n \in names : farm_eggs[n] \in EggsOf(n)} :
            names \in SUBSET EggNames }

\* AutoFeeder() on a directory the farm has saved its eggs to; the window is
\* empty or holds the nine scores.
InitFeeder ==
    /\ \E farm_eggs \in Farms :
          files = [n \in DOMAIN farm_eggs |-> to_document(farm_eggs[n])]
    /\ eggs = load_existing_eggs(files)
    /\ now = TargetExamples + 2
    /\ result = Constructed
    /\ feeder \in {AutoFeeder, [AutoFeeder EXCEPT !.quality_history = Scored]}
    /\ second = NoFarm
    /\ calls = 0

AutoFeed ==
    /\ calls < MaxCalls
    /\ \E a \in Interactions :
        LET outcome == auto_feed_compatible_eggs(feeder, eggs, files, a, now)
        IN  /\ feeder' = outcome.feeder
            /\ eggs' = outcome.eggs
            /\ files' = outcome.files
            /\ result' = outcome.result
            /\ now' = IF outcome.result.payload.fed_eggs # {} THEN now + 1 ELSE now
            /\ calls' = calls + 1
            /\ UNCHANGED second

Returned(op) ==
    [op |-> op, egg_name |-> None, raised |-> FALSE, payload |-> [success |-> TRUE]]

EnableAutoFeeding ==
    /\ feeder' = enable_auto_feeding(feeder)
    /\ result' = Returned("enable_auto_feeding")
    /\ UNCHANGED <<eggs, files, now, second, calls>>

DisableAutoFeeding ==
    /\ feeder' = disable_auto_feeding(feeder)
    /\ result' = Returned("disable_auto_feeding")
    /\ UNCHANGED <<eggs, files, now, second, calls>>

SetQualityThreshold ==
    \E threshold \in Thresholds :
        /\ feeder' = set_quality_threshold(feeder, threshold)
        /\ result' = Returned("set_quality_threshold")
        /\ UNCHANGED <<eggs, files, now, second, calls>>

\* AutoFeeder(farm): a new feeder on the same farm.
NewAutoFeeder ==
    /\ feeder' = AutoFeeder
    /\ result' = Returned("AutoFeeder")
    /\ UNCHANGED <<eggs, files, now, second, calls>>

NextFeeder ==
    \/ AutoFeed
    \/ EnableAutoFeeding \/ DisableAutoFeeding \/ SetQualityThreshold
    \/ NewAutoFeeder

SpecFeeder == InitFeeder /\ [][NextFeeder]_vars

----------------------------------------------------------------------------
(* should_feed_egg asked of one AutoFeeder                                 *)

\* The names and the detected skills should_feed_egg is asked about.
AskedNames == EggNames \cup {"tech-writer"}

AskedSkills ==
    { <<>>, <<"academic_writing">>, <<"voice_mimicry">>,
      <<"technical_documentation", "research_synthesis">> }

ShouldFeedEgg ==
    \E egg_name \in AskedNames, skills \in AskedSkills :
        /\ result' = [ op |-> "should_feed_egg", egg_name |-> egg_name,
                       raised |-> FALSE, args |-> skills,
                       payload |-> should_feed_egg(feeder, eggs, egg_name, skills) ]
        /\ UNCHANGED <<eggs, files, now, feeder, second, calls>>

NextQuery == ShouldFeedEgg \/ EnableAutoFeeding \/ DisableAutoFeeding

SpecQuery == InitFeeder /\ [][NextQuery]_vars

----------------------------------------------------------------------------
(* An academic interaction fed to a farm whose only egg is new             *)

\* An output of the given length: the chosen indicator words, four sentence
\* ends if it is punctuated, and filler.
AcademicOutput(indicators, punctuated, length) ==
    LET chosen == SelectSeq(academic_indicators, LAMBDA w : w \in indicators)
        ends == IF punctuated
                THEN <<"findings.", "findings.", "findings.", "findings.">>
                ELSE <<>>
    IN  chosen \o ends \o [i \in 1..(length - Len(chosen) - Len(ends)) |-> "the"]

AcademicInteractions ==
    { [ input_text |-> <<"Explain", "the">>,
        output_text |-> AcademicOutput(indicators, punctuated, length),
        command_context |-> command_context,
        user_feedback |-> None ] :
      indicators \in SUBSET Elements(academic_indicators),
      punctuated \in BOOLEAN,
      length \in {LongOutput, LongOutput + 1},
      command_context \in {"generate_blog", "academic_devlog"} }

\* spawn_egg("scholar", ["academic_writing", "research_synthesis"]) on an
\* empty directory, then AutoFeeder().
InitAcademic ==
    LET outcome == spawn_egg(EmptyMap, EmptyMap, "scholar",
                             <<"academic_writing", "research_synthesis">>,
                             "academic", 0)
    IN  /\ eggs = outcome.eggs
        /\ files = outcome.files
        /\ now = 1
        /\ result = outcome.result
        /\ feeder = AutoFeeder
        /\ second = NoFarm
        /\ calls = 0

\* The first interaction handed to the feeder.
AutoFeedAcademic ==
    /\ calls = 0
    /\ \E a \in AcademicInteractions :
        LET outcome == auto_feed_compatible_eggs(feeder, eggs, files, a, now)
        IN  /\ feeder' = outcome.feeder
            /\ eggs' = outcome.eggs
            /\ files' = outcome.files
            /\ result' = outcome.result
            /\ now' = IF outcome.result.payload.fed_eggs # {} THEN now + 1 ELSE now
            /\ calls' = calls + 1
            /\ UNCHANGED second

NextAcademic == AutoFeedAcademic

SpecAcademic == InitAcademic /\ [][NextAcademic]_vars

----------------------------------------------------------------------------
(* Two processes, each with its own EggFarm, on one directory              *)

\* create_academic_egg(name): a farm of its own, constructed on the directory
\* for this one spawn.
create_academic_egg(farm_dir, name, t) ==
    spawn_egg(load_existing_eggs(farm_dir), farm_dir, name,
              <<"academic_writing", "ieee_formatting", "research_synthesis">>,
              "academic", t)

\* The egg of the test script, and the examples the two processes feed.
CreatedNames == {"test-egg"}

SharedFeedArgs == {a \in FeedArgs : a.user_feedback = None}

Held(farm_eggs) ==
    SumOver([n \in DOMAIN farm_eggs |-> Len(farm_eggs[n].training_examples)],
            DOMAIN farm_eggs)

\* The first process has constructed its farm on the empty directory.
InitShared ==
    /\ files = EmptyMap
    /\ eggs = load_existing_eggs(files)
    /\ now = 0
    /\ result = Constructed
    /\ feeder = AutoFeeder
    /\ second = NoFarm
    /\ calls = 0

\* The first process calls create_academic_egg.
CreateAcademicEgg ==
    \E name \in CreatedNames :
        LET outcome == create_academic_egg(files, name, now)
        IN  /\ files' = outcome.files
            /\ result' = outcome.result
            /\ now' = IF outcome.result.payload.success THEN now + 1 ELSE now
            /\ UNCHANGED <<eggs, feeder, second, calls>>

\* The first process calls feed_egg on its farm.
FeedFirst ==
    /\ Held(eggs) < MaxShared
    /\ \E egg_name \in CreatedNames, a \in SharedFeedArgs :
        LET outcome == feed_egg(eggs, files, egg_name, a, now)
        IN  /\ eggs' = outcome.eggs
            /\ files' = outcome.files
            /\ result' = outcome.result
            /\ now' = IF outcome.result.payload.success THEN now + 1 ELSE now
            /\ UNCHANGED <<feeder, second, calls>>

\* The first process constructs a new EggFarm.
ConstructFirst ==
    /\ eggs' = load_existing_eggs(files)
    /\ result' = Constructed
    /\ UNCHANGED <<files, now, feeder, second, calls>>

\* The second process constructs its EggFarm.
ConstructSecond ==
    /\ second' = [eggs |-> load_existing_eggs(files), result |-> Constructed]
    /\ UNCHANGED <<eggs, files, now, result, feeder, calls>>

\* The second process calls feed_egg on its farm.
FeedSecond ==
    /\ second.result.op # "none"
    /\ Held(second.eggs) < MaxShared
    /\ \E egg_name \in CreatedNames, a \in SharedFeedArgs :
        LET outcome == feed_egg(second.eggs, files, egg_name, a, now)
        IN  /\ second' = [eggs |-> outcome.eggs, result |-> outcome.result]
            /\ files' = outcome.files
            /\ now' = IF outcome.result.payload.success THEN now + 1 ELSE now
            /\ UNCHANGED <<eggs, result, feeder, calls>>

NextShared ==
    \/ CreateAcademicEgg \/ FeedFirst \/ ConstructFirst
    \/ ConstructSecond \/ FeedSecond

SpecShared == InitShared /\ [][NextShared]_vars

----------------------------------------------------------------------------
(* A feeder whose cache and window are about to be full                    *)

\* The i-th of a series of academic interactions that differ in one word of
\* the input and alternate between two command contexts.
Numbered(i) ==
    [ input_text |-> <<"methodology", "n" \o ToString(i)>>,
      output_text |-> <<"analysis", "results">>,
      command_context |-> IF i % 2 = 0 THEN "generate_blog" ELSE "academic_devlog",
      user_feedback |-> None ]

\* The feeder and the farm once a call that began at time t has returned,
\* and the number of calls made.
Settled(outcome, t, made) ==
    [ feeder |-> outcome.feeder, eggs |-> outcome.eggs,
      files |-> outcome.files, result |-> outcome.result,
      now |-> IF outcome.result.payload.fed_eggs # {} THEN t + 1 ELSE t,
      made |-> made ]

\* One more interaction handed to auto_feed_compatible_eggs.
AfterCall(before, a) ==
    Settled(auto_feed_compatible_eggs(before.feeder, before.eggs,
                                      before.files, a, before.now),
            before.now, before.made + 1)

\* The interactions of the series handed to the feeder, up to the one that
\* is call number `total`, one half of them after the other.
RECURSIVE RunUpTo(_, _)
RunUpTo(run, total) ==
    LET next == run.made + 1 IN
    IF next > total THEN run
    ELSE IF next = total THEN AfterCall(run, Numbered(total))
         ELSE RunUpTo(RunUpTo(run, (next + total) \div 2), total)

\* spawn_egg on an empty directory, AutoFeeder() on that farm, and then the
\* first k interactions of the series handed to auto_feed_compatible_eggs.
RunCalls(k) ==
    LET outcome == spawn_egg(EmptyMap, EmptyMap, "academic-writer",
                             SpawnArgs["academic-writer"].focus_areas,
                             SpawnArgs["academic-writer"].egg_type, 0)
    IN  RunUpTo([ feeder |-> AutoFeeder, eggs |-> outcome.eggs,
                  files |-> outcome.files, result |-> outcome.result,
                  now |-> 1, made |-> 0 ],
                k)

\* The numbers of calls already made: a window and a cache that are one short
\* of full, and full.
CallsMade == {quality_window - 1, quality_window, cache_size - 1, cache_size}

\* The interactions handed to the feeder next: the oldest of the series, later
\* ones, and one without any skill.
NextInteractions ==
    { Numbered(i) : i \in {1, 2, cache_size + 1, cache_size + 2, cache_size + 3} }
        \cup {a \in Interactions : a.input_text = <<"hello">>}

InitSeries ==
    \E run \in {RunCalls(k) : k \in CallsMade} :
        /\ feeder = run.feeder
        /\ eggs = run.eggs
        /\ files = run.files
        /\ result = run.result
        /\ now = run.now
        /\ second = NoFarm
        /\ calls = 0

AutoFeedNext ==
    /\ calls < MaxCalls
    /\ \E a \in NextInteractions :
        LET outcome == auto_feed_compatible_eggs(feeder, eggs, files, a, now)
        IN  /\ feeder' = outcome.feeder
            /\ eggs' = outcome.eggs
            /\ files' = outcome.files
            /\ result' = outcome.result
            /\ now' = IF outcome.result.payload.fed_eggs # {} THEN now + 1 ELSE now
            /\ calls' = calls + 1
            /\ UNCHANGED second

NextSeries == AutoFeedNext

SpecSeries == InitSeries /\ [][NextSeries]_vars

----------------------------------------------------------------------------
(* detect_skills on short texts                                            *)

\* Words in upper, lower and mixed case, patterns of three skills among them.
DetectWords ==
    {"IEEE", "ieee", "TABLE", "Citation", "format", "voice", "Style"}

MaxWords == 3

DetectTexts == UNION {[1..n -> DetectWords] : n \in 1..MaxWords}

\* The first text handed to detect_skills.
DetectSkills ==
    /\ calls = 0
    /\ \E text \in DetectTexts :
          /\ result' = [ op |-> "detect_skills", egg_name |-> None,
                         raised |-> FALSE, args |-> text,
                         payload |-> detect_skills(text) ]
          /\ calls' = calls + 1
          /\ UNCHANGED <<eggs, files, now, feeder, second>>

NextDetect == DetectSkills

SpecDetect == Init /\ [][NextDetect]_vars

----------------------------------------------------------------------------
(* check_data_health on eggs of several sizes                              *)

\* The i-th example fed to an egg: a short word of its own and, when
\* repeated, one long word it shares with the other repeated examples.
HealthExample(i, repeated, tags) ==
    [ input_text |-> IF repeated THEN <<"methodology", "n" \o ToString(i)>>
                     ELSE <<"n" \o ToString(i)>>,
      output_text |-> <<"analysis">>,
      skill_tags |-> tags,
      quality_score |-> 80,
      user_feedback |-> None ]

\* The egg after the feeds that bring it to `total` examples, one half of
\* them after the other; the examples past `plain` are repeated.
RECURSIVE FedUpTo(_, _, _, _)
FedUpTo(egg, total, plain, tags) ==
    LET next == Len(egg.training_examples) + 1 IN
    IF next > total THEN egg
    ELSE IF next = total
         THEN feed(egg, HealthExample(total, total > plain, tags), total).egg
         ELSE FedUpTo(FedUpTo(egg, (next + total) \div 2, plain, tags),
                      total, plain, tags)

\* The egg after n feeds, the last k of them repeated.
FedSeries(name, n, k, tags) == FedUpTo(Spawned(name), n, n - k, tags)

MaxExamples == 6

\* Tags inside and outside the registry.
HealthTags ==
    { <<"academic_writing">>,
      <<"not_a_skill">>,
      <<"academic_writing", "unknown_skill", "not_a_skill">>,
      <<"academic_writing", "voice_mimicry", "research_synthesis">>,
      SkillOrder \o <<"not_a_skill">> }

\* Sizes at and past the 100 examples the freshness check looks at, and
\* numbers of repeated examples around 20% of them.
LargeSizes == {FreshnessExamples, FreshnessExamples + 5}

LargeRepeats == {20, 21, 22}

HealthEggs ==
    { FedSeries("academic-writer", n, k, tags) :
        n \in 0..MaxExamples, k \in 0..MaxExamples, tags \in HealthTags }
    \cup { FedSeries("academic-writer", n, k, <<"academic_writing">>) :
             n \in LargeSizes, k \in LargeRepeats }

InitHealth ==
    /\ \E egg \in HealthEggs :
          /\ eggs = ("academic-writer" :> egg)
          /\ files = ("academic-writer" :> to_document(egg))
    /\ now = 1
    /\ result = [ op |-> "EggFarm", egg_name |-> None, raised |-> FALSE,
                  payload |-> [success |-> TRUE] ]
    /\ feeder = AutoFeeder
    /\ second = NoFarm
    /\ calls = 0

CheckDataHealth ==
    \E name \in DOMAIN eggs :
        /\ result' = [ op |-> "check_data_health", egg_name |-> name,
                       raised |-> FALSE,
                       payload |-> check_data_health(eggs[name]) ]
        /\ UNCHANGED <<eggs, files, now, feeder, second, calls>>

NextHealth == CheckDataHealth

SpecHealth == InitHealth /\ [][NextHealth]_vars

----------------------------------------------------------------------------
(* Properties                                                              *)

IsPrefix(s, t) == Len(s) <= Len(t) /\ \A i \in DOMAIN s : s[i] = t[i]

NoDuplicates(seq) == \A i, j \in DOMAIN seq : seq[i] = seq[j] => i = j

FedInto(n) ==
    /\ result'.op = "feed_egg"
    /\ result'.egg_name = n

HatchCalledOn(n) ==
    /\ result'.op = "hatch_egg"
    /\ result'.egg_name = n

\* The four readiness conditions of an egg, one by one.
EnoughExamples(egg) == egg.total_examples >= egg.target_examples

EnoughQuality(egg) ==
    /\ egg.training_examples # <<>>
    /\ QualitySum(egg.training_examples)
         >= egg.quality_threshold * Len(egg.training_examples)

EnoughDiversity(egg) ==
    Cardinality({s \in Registry : egg.specializations[s].examples_collected > 0}) >= 3

NotYetHatched(egg) == ~egg.metadata.hatched

\* C1: once an egg is hatched, every later feed_egg naming it is rejected and
\* its total_examples and training_examples never change again.
C1_HatchedEggIsNeverFed ==
    [][\A n \in DOMAIN eggs :
          eggs[n].metadata.hatched =>
              /\ FedInto(n) => ~result'.payload.success
              /\ eggs'[n].total_examples = eggs[n].total_examples
              /\ eggs'[n].training_examples = eggs[n].training_examples]_vars

\* C2: for every egg, after any sequence of feeds with known or unknown skill
\* tags, total_examples is the length of training_examples.
C2_TotalIsLength ==
    \A n \in DOMAIN eggs :
        eggs[n].total_examples = Len(eggs[n].training_examples)

\* An egg fed an example with only an unknown tag and one with known tags.
C2_Witness ==
    \E n \in DOMAIN eggs :
        /\ result.op = "feed_egg"
        /\ \E i \in DOMAIN eggs[n].training_examples :
              \A k \in DOMAIN eggs[n].training_examples[i].skill_tags :
                  eggs[n].training_examples[i].skill_tags[k] \notin Registry
        /\ \E i \in DOMAIN eggs[n].training_examples :
              Len(eggs[n].training_examples[i].skill_tags) = 3

\* C3: for every specialization of every egg, after spawn, feed, hatch and a
\* reload of the saved files, examples_collected is the length of quality_scores.
C3_CollectedIsScores ==
    \A n \in DOMAIN eggs :
        \A s \in DOMAIN eggs[n].specializations :
            eggs[n].specializations[s].examples_collected
                = Len(eggs[n].specializations[s].quality_scores)

\* A reloaded farm holding a hatched egg and a specialization fed twice.
C3_Witness ==
    /\ result.op = "EggFarm"
    /\ \E n \in DOMAIN eggs : eggs[n].metadata.hatched
    /\ \E n \in DOMAIN eggs :
          eggs[n].specializations["voice_mimicry"].examples_collected >= 2

\* C4: hatch succeeds if and only if the four readiness conditions hold at the
\* time of the call, and a successful hatch sets the hatched flag.
C4_HatchIffReady ==
    [][\A n \in DOMAIN eggs :
          HatchCalledOn(n) =>
              /\ result'.payload.success <=>
                    /\ EnoughExamples(eggs[n])
                    /\ EnoughQuality(eggs[n])
                    /\ EnoughDiversity(eggs[n])
                    /\ NotYetHatched(eggs[n])
              /\ result'.payload.success => eggs'[n].metadata.hatched]_vars

\* A successful hatch of an egg holding exactly target_examples examples whose
\* average is exactly the quality threshold.
C4_Witness ==
    /\ result.op = "hatch_egg"
    /\ result.payload.success
    /\ LET egg == eggs[result.egg_name] IN
          /\ egg.total_examples = egg.target_examples
          /\ QualitySum(egg.training_examples)
                = egg.quality_threshold * Len(egg.training_examples)

\* C5: a failed hatch reports a gap that is strictly positive for exactly the
\* readiness conditions that are false, so at least one entry is positive,
\* also when the failing condition is that the egg is already hatched.
C5_GapForEachFailingCondition ==
    [][\A n \in DOMAIN eggs :
          (HatchCalledOn(n) /\ ~result'.payload.success) =>
              LET gap == result'.payload.requirements IN
              /\ gap.examples_needed
                    = Max(0, eggs[n].target_examples - eggs[n].total_examples)
              /\ gap.examples_needed > 0 <=> ~EnoughExamples(eggs[n])
              /\ gap.quality_needed.num > 0 <=> ~EnoughQuality(eggs[n])
              /\ gap.diversity_needed > 0 <=> ~EnoughDiversity(eggs[n])
              /\ \/ gap.examples_needed > 0
                 \/ gap.quality_needed.num > 0
                 \/ gap.diversity_needed > 0]_vars

\* C6: the manifest of a successful hatch lists exactly the specializations
\* with at least one collected example, and its size is total_examples.
C6_ManifestListsPopulated ==
    (result.op = "hatch_egg" /\ result.payload.success) =>
        LET egg == eggs[result.egg_name]
            learned == result.payload.specializations_learned
        IN  /\ {learned[i] : i \in DOMAIN learned}
                  = {s \in Registry : egg.specializations[s].examples_collected > 0}
            /\ result.payload.training_dataset_size = egg.total_examples

\* C7: metadata.achievements never holds a name twice, a feed reports only
\* achievements the egg did not have, and no achievement is ever removed.
C7_AchievementsOnce ==
    [][\A n \in DOMAIN eggs :
          /\ NoDuplicates(eggs'[n].metadata.achievements)
          /\ IsPrefix(eggs[n].metadata.achievements, eggs'[n].metadata.achievements)
          /\ (FedInto(n) /\ result'.payload.success) =>
                LET new == result'.payload.report.new_achievements IN
                /\ eggs'[n].metadata.achievements
                      = eggs[n].metadata.achievements \o new
                /\ \A i \in DOMAIN new :
                      ~InSeq(new[i], eggs[n].metadata.achievements)]_vars

\* A feed that reports nothing new to an egg that keeps "High Quality" while
\* its average is below 8.0.
C7_Witness ==
    /\ result.op = "feed_egg"
    /\ result.payload.success
    /\ result.payload.report.new_achievements = <<>>
    /\ LET egg == eggs[result.egg_name] IN
          /\ InSeq("High Quality", egg.metadata.achievements)
          /\ QualitySum(egg.training_examples) < 80 * Len(egg.training_examples)

\* C8: spawn_egg succeeds exactly when the name is new; a failed spawn changes
\* no egg and no file; a successful one adds an un-hatched egg with no examples
\* and the 7 registry specializations at zero, and persists it.
C8_SpawnOnlyNewNames ==
    [][\A name \in EggNames :
          (result'.op = "spawn_egg" /\ result'.egg_name = name) =>
              /\ result'.payload.success <=> name \notin DOMAIN eggs
              /\ name \in DOMAIN eggs => eggs' = eggs /\ files' = files
              /\ name \notin DOMAIN eggs =>
                    /\ DOMAIN eggs' = DOMAIN eggs \cup {name}
                    /\ \A other \in DOMAIN eggs : eggs'[other] = eggs[other]
                    /\ ~eggs'[name].metadata.hatched
                    /\ eggs'[name].total_examples = 0
                    /\ eggs'[name].training_examples = <<>>
                    /\ DOMAIN eggs'[name].specializations = Registry
                    /\ Cardinality(Registry) = 7
                    /\ \A s \in Registry :
                          /\ eggs'[name].specializations[s].examples_collected = 0
                          /\ eggs'[name].specializations[s].quality_scores = <<>>
                    /\ DOMAIN files' = DOMAIN files \cup {name}
                    /\ \A other \in DOMAIN files \ {name} : files'[other] = files[other]
                    /\ files'[name].name = name
                    /\ files'[name].total_examples = 0
                    /\ files'[name].training_examples = <<>>
                    /\ files'[name].metadata = eggs'[name].metadata]_vars

\* A refused spawn on the name of an egg that holds examples.
C8_Witness ==
    /\ result.op = "spawn_egg"
    /\ ~result.payload.success
    /\ eggs[result.egg_name].total_examples > 0
    /\ files[result.egg_name].total_examples > 0

\* C9: feed_egg, get_egg_stats and hatch_egg on an unknown name return a
\* failure payload without raising and change no egg and no file; hatch_egg on
\* an egg that is not ready changes nothing either.
C9_UnknownNameChangesNothing ==
    [][/\ ( /\ result'.op \in {"feed_egg", "get_egg_stats", "hatch_egg"}
            /\ result'.egg_name \notin DOMAIN eggs ) =>
              /\ ~result'.raised
              /\ ~result'.payload.success
              /\ eggs' = eggs
              /\ files' = files
       /\ \A n \in DOMAIN eggs :
            ( /\ HatchCalledOn(n)
              /\ ~( /\ EnoughExamples(eggs[n]) /\ EnoughQuality(eggs[n])
                    /\ EnoughDiversity(eggs[n]) /\ NotYetHatched(eggs[n]) ) ) =>
              /\ ~result'.raised
              /\ eggs' = eggs
              /\ files' = files]_vars

\* A refused feed on an unknown name in a farm that holds a fed egg.
C9_Witness ==
    /\ result.op = "feed_egg"
    /\ ~result.payload.success
    /\ result.egg_name \notin DOMAIN eggs
    /\ result.egg_name \notin DOMAIN files
    /\ \E n \in DOMAIN eggs : eggs[n].total_examples > 0

\* C10: after every farm operation the persisted document of each egg equals
\* the egg in memory, and a new EggFarm on the directory holds the same eggs.
C10_DiskMirrorsMemory ==
    /\ DOMAIN files = DOMAIN eggs
    /\ \A n \in DOMAIN eggs :
          /\ files[n].name = n
          /\ files[n].total_examples = eggs[n].total_examples
          /\ files[n].training_examples = eggs[n].training_examples
          /\ files[n].metadata = eggs[n].metadata
          /\ \A s \in Registry :
                /\ files[n].specializations[s].examples_collected
                      = eggs[n].specializations[s].examples_collected
                /\ files[n].specializations[s].quality_scores
                      = eggs[n].specializations[s].quality_scores
    /\ load_existing_eggs(files) = eggs

\* A hatched egg with achievements whose document records the hatch, next to a
\* second egg.
C10_Witness ==
    /\ result.op = "hatch_egg"
    /\ result.payload.success
    /\ files[result.egg_name].metadata.hatched
    /\ files[result.egg_name].metadata.achievements # <<>>
    /\ Cardinality(DOMAIN files) = 2

\* The egg an EggFarm holds is the one the document of its file loads to.
LoadedFrom(n) ==
    /\ n \in DOMAIN files
    /\ Loads(files[n])
    /\ files[n].name = n
    /\ n \in DOMAIN eggs
    /\ eggs[n] = load_egg(files[n])

\* C11: for any egg document that loads without error, loading it and saving
\* it again reproduces the same document field for field, the
\* examples_collected, quality_scores and target_examples of every
\* specialization included, whatever values the file holds.
C11_LoadSaveRoundTrip ==
    [][\A n \in LoadStems :
          (LoadedFrom(n) /\ result'.op = "save_egg" /\ result'.egg_name = n)
              => files'[n] = files[n]]_vars

\* A document as save_egg writes them: every key, a date that parses, the
\* three fields of every specialization.
WellFormed(data) ==
    /\ DOMAIN data = DocumentKeys
    /\ Len(data.created_date) = 2
    /\ data.created_date = isoformat(fromisoformat(data.created_date))
    /\ \A s \in DOMAIN data.specializations :
          DOMAIN data.specializations[s]
              = {"examples_collected", "quality_scores", "target_examples"}

\* C12: on a directory that mixes well-formed and malformed egg files the
\* construction of the farm does not fail, every well-formed egg is loaded,
\* and every registered egg is the egg of a file that loads, never a partly
\* rebuilt one, whatever the order in which the files are read.
C12_MalformedFilesAreSkipped ==
    result.op = "EggFarm" =>
        /\ ~result.raised
        /\ \A n \in DOMAIN files :
              WellFormed(files[n]) =>
                  /\ files[n].name \in DOMAIN eggs
                  /\ eggs[files[n].name] = load_egg(files[n])
        /\ \A e \in DOMAIN eggs :
              \E n \in DOMAIN files :
                  /\ Loads(files[n])
                  /\ files[n].name = e
                  /\ eggs[e] = load_egg(files[n])

\* A farm constructed on a directory that holds a loaded egg with an example
\* next to a file that fails half-way through its specializations and bears
\* the same egg name.
C12_Witness ==
    /\ result.op = "EggFarm"
    /\ "broken" \in DOMAIN files
    /\ ~Loads(files["broken"])
    /\ "name" \in DOMAIN files["broken"]
    /\ "metadata" \in DOMAIN files["broken"]
    /\ files["broken"].name = "academic-writer"
    /\ Len(files["broken"].created_date) = 2
    /\ "academic-writer" \in DOMAIN files
    /\ "academic-writer" \in DOMAIN eggs
    /\ eggs["academic-writer"].total_examples = 1

Overlap(skills, egg) == Elements(skills) \cap Elements(egg.focus_areas) # {}

\* C13: should_feed_egg returns false if feeding is disabled, the egg does not
\* exist, the egg is hatched or its check_data_health status is unhealthy; in
\* every other case it returns true exactly when the detected skills and the
\* focus areas of the egg have a common element; it changes no state.
C13_ShouldFeedEgg ==
    [][result'.op = "should_feed_egg" =>
          LET n == result'.egg_name
              refused == \/ ~feeder.feeding_enabled
                         \/ n \notin DOMAIN eggs
                         \/ eggs[n].metadata.hatched
                         \/ check_data_health(eggs[n]).status = "unhealthy"
          IN  /\ refused => result'.payload = FALSE
              /\ ~refused => (result'.payload <=> Overlap(result'.args, eggs[n]))
              /\ UNCHANGED <<eggs, files, feeder, now>>]_vars

\* The feeder is enabled and asked about an un-hatched egg whose focus areas
\* hold the detected skill but whose data are unhealthy: the answer is false.
C13_Witness ==
    /\ result.op = "should_feed_egg"
    /\ feeder.feeding_enabled
    /\ result.egg_name \in DOMAIN eggs
    /\ ~eggs[result.egg_name].metadata.hatched
    /\ Len(health_warnings(eggs[result.egg_name])) = 3
    /\ Overlap(result.args, eggs[result.egg_name])
    /\ result.payload = FALSE

IsAutoFeed(r) == r.op = "auto_feed_compatible_eggs"

\* The call passed every gate: it returns the breakdown, not a reason.
GatesPassed(r) ==
    /\ IsAutoFeed(r)
    /\ r.payload.enabled
    /\ "reason" \notin DOMAIN r.payload

\* C14: when all gates of auto_feed_compatible_eggs pass, every egg of the farm
\* that is not hatched, not unhealthy and whose focus areas intersect the
\* detected skills receives exactly one new example in that call, with the
\* computed quality score and the detected skills as tags, and every other egg
\* of the farm is left unchanged.
C14_CompatibleEggsFedOnce ==
    [][GatesPassed(result') =>
          LET a == result'.args
              skills == detect_skills(a.input_text \o a.output_text)
              score == calculate_quality_score(a.input_text, a.output_text,
                                               a.command_context)
          IN  /\ DOMAIN eggs' = DOMAIN eggs
              /\ \A n \in DOMAIN eggs :
                    IF /\ ~eggs[n].metadata.hatched
                       /\ check_data_health(eggs[n]).status # "unhealthy"
                       /\ Overlap(skills, eggs[n])
                    THEN /\ eggs'[n].total_examples = eggs[n].total_examples + 1
                         /\ Len(eggs'[n].training_examples)
                              = Len(eggs[n].training_examples) + 1
                         /\ IsPrefix(eggs[n].training_examples,
                                     eggs'[n].training_examples)
                         /\ LET example == eggs'[n].training_examples[
                                               Len(eggs'[n].training_examples)]
                            IN  /\ example.input = a.input_text
                                /\ example.output = a.output_text
                                /\ example.quality_score = score
                                /\ example.skill_tags = skills
                    ELSE eggs'[n] = eggs[n]]_vars

\* One call fed both eggs of a farm.
C14_Witness ==
    /\ GatesPassed(result)
    /\ result.payload.total_fed = 2
    /\ \A n \in EggNames :
          /\ n \in DOMAIN eggs
          /\ eggs[n].training_examples # <<>>
          /\ eggs[n].training_examples[Len(eggs[n].training_examples)].input
                = result.args.input_text

SimilarityReasons == {"Content too similar", "Too many similar items"}

FreshnessRejected(r) ==
    /\ IsAutoFeed(r)
    /\ r.payload.enabled
    /\ "reason" \in DOMAIN r.payload
    /\ r.payload.reason[1] = "Content protection"
    /\ r.payload.reason[2] \in SimilarityReasons

\* C15: on one AutoFeeder, if a call of auto_feed_compatible_eggs fed at least
\* one egg with an input/output pair, the immediately following call with the
\* identical pair is rejected by the freshness gate with a similarity-based
\* reason and feeds no egg.
C15_IdenticalPairRejected ==
    [][( /\ IsAutoFeed(result)
         /\ result.payload.fed_eggs # {}
         /\ IsAutoFeed(result')
         /\ calls' = calls + 1
         /\ result'.args.input_text = result.args.input_text
         /\ result'.args.output_text = result.args.output_text )
          => /\ FreshnessRejected(result')
             /\ result'.payload.fed_eggs = {}
             /\ eggs' = eggs]_vars

\* The second of two calls with the pair an egg was just fed was rejected.
C15_Witness ==
    /\ FreshnessRejected(result)
    /\ calls = 2
    /\ \E n \in DOMAIN eggs :
          /\ eggs[n].training_examples # <<>>
          /\ LET example == eggs[n].training_examples[Len(eggs[n].training_examples)]
             IN  /\ example.input = result.args.input_text
                 /\ example.output = result.args.output_text
                 /\ example.timestamp = isoformat(now - 1)

\* C16: every result of auto_feed_compatible_eggs with feeding enabled carries
\* the detected skills and the computed quality score, whether the call fed
\* eggs or was rejected by a gate, and every rejection carries a reason.
C16_ResultExplainsOutcome ==
    (IsAutoFeed(result) /\ result.payload.enabled) =>
        /\ {"detected_skills", "quality_score"} \subseteq DOMAIN result.payload
        /\ "total_fed" \notin DOMAIN result.payload
              => "reason" \in DOMAIN result.payload

\* C20: a call of auto_feed_compatible_eggs that is rejected by a gate changes
\* no egg in memory, no persisted egg file and not the dedup cache; a call
\* rejected by the freshness gate or by the skill gate also leaves the
\* quality-trend window unchanged.
C20_RejectionChangesNoEgg ==
    [][( /\ IsAutoFeed(result')
         /\ calls' = calls + 1
         /\ result'.payload.enabled
         /\ "reason" \in DOMAIN result'.payload )
          => /\ eggs' = eggs
             /\ files' = files
             /\ feeder'.recent_content_cache = feeder.recent_content_cache
             /\ result'.payload.reason[1]
                    \in {"Content protection", "No relevant skills detected"}
                  => feeder'.quality_history = feeder.quality_history]_vars

\* A call rejected by the quality-trend gate, on a farm that holds an egg the
\* interaction would have fed.
C20_Witness ==
    /\ IsAutoFeed(result)
    /\ result.payload.enabled
    /\ "reason" \in DOMAIN result.payload
    /\ result.payload.reason[1] = "Quality protection"
    /\ Len(feeder.quality_history) = 10
    /\ \E n \in DOMAIN eggs :
          should_feed_egg(feeder, eggs, n,
              detect_skills(result.args.input_text \o result.args.output_text))

\* C17: for every output text longer than 100 words that contains at least 5
\* of the 7 academic indicator words, calculate_quality_score returns at least
\* 8.0 and detect_skills detects academic_writing, so auto-feeding it into a
\* farm whose only egg is a new one focused on academic_writing and
\* research_synthesis leaves the academic_writing specialization of that egg
\* with examples_collected = 1.
C17_AcademicTextFeedsAcademicEgg ==
    ( /\ IsAutoFeed(result)
      /\ DOMAIN eggs = {"scholar"}
      /\ Len(result.args.output_text) > 100
      /\ Cardinality(Elements(result.args.output_text)
                        \cap Elements(academic_indicators)) >= 5 )
        => /\ calculate_quality_score(result.args.input_text,
                                      result.args.output_text,
                                      result.args.command_context) >= 80
           /\ \E i \in DOMAIN detect_skills(result.args.input_text
                                               \o result.args.output_text) :
                 detect_skills(result.args.input_text
                                  \o result.args.output_text)[i] = "academic_writing"
           /\ eggs["scholar"].specializations["academic_writing"].examples_collected = 1

\* A 101-word output with exactly five indicator words, three of them outside
\* the academic_writing patterns, no punctuation and no context bonus, was fed.
C17_Witness ==
    /\ IsAutoFeed(result)
    /\ DOMAIN eggs = {"scholar"}
    /\ Len(result.args.output_text) = 101
    /\ Elements(result.args.output_text) \cap Elements(academic_indicators)
         = {"evaluation", "comprehensive", "systematic", "methodology", "analysis"}
    /\ result.args.command_context = "generate_blog"
    /\ Dots(result.args.output_text) = 0
    /\ result.payload.quality_score = 85
    /\ eggs["scholar"].total_examples = 1

FedBy(r, n) == r.op = "feed_egg" /\ r.egg_name = n /\ r.payload.success

\* C18: two processes that have each loaded the same farm directory and each
\* feed the same egg once can interleave so that the persisted document holds
\* only one of the two examples: every successful feed writes the whole
\* document of the feeding process over the file, whatever the file held, and
\* reports success to the process without an error, the farm of the other
\* process being left as it was.
C18_LastWriterWins ==
    [][\A n \in CreatedNames :
          /\ (FedBy(result', n) /\ result' # result)
                => /\ files'[n] = to_document(eggs'[n])
                   /\ ~result'.raised
                   /\ second' = second
          /\ (FedBy(second'.result, n) /\ second' # second)
                => /\ files'[n] = to_document(second'.eggs[n])
                   /\ ~second'.result.raised
                   /\ eggs' = eggs /\ result' = result]_vars

\* Both processes loaded the egg without examples and each fed it one
\* example with success; the file holds the example of the second process
\* only.
C18_Witness ==
    \E n \in CreatedNames :
        /\ FedBy(result, n) /\ ~result.raised
        /\ FedBy(second.result, n) /\ ~second.result.raised
        /\ n \in DOMAIN eggs /\ n \in DOMAIN second.eggs /\ n \in DOMAIN files
        /\ Len(eggs[n].training_examples) = 1
        /\ Len(second.eggs[n].training_examples) = 1
        /\ Len(files[n].training_examples) = 1
        /\ files[n].total_examples = 1
        /\ files[n].training_examples = second.eggs[n].training_examples
        /\ files[n].training_examples[1].input # eggs[n].training_examples[1].input

\* C19: after create_academic_egg(name) has returned success, feed_egg(name,
\* ...) on an EggFarm constructed on the same directory before the spawn
\* succeeds, and list_eggs and get_egg_stats of that farm show the egg with
\* the fed example.
C19_FeedAfterCreate ==
    [][\A n \in CreatedNames :
          ( /\ n \in DOMAIN files
            /\ files[n].egg_type = "academic"
            /\ result'.op = "feed_egg"
            /\ result'.egg_name = n )
            => /\ result'.payload.success
               /\ n \in DOMAIN list_eggs(eggs').eggs
               /\ list_eggs(eggs').eggs[n].examples >= 1
               /\ get_egg_stats(eggs', files', n, now').result.payload.success]_vars

\* A list that takes one more entry at its end and drops its first one if it
\* was full.
Pushed(list, entry, size) ==
    (IF Len(list) = size THEN Tail(list) ELSE list) \o <<entry>>

\* The call got as far as the quality-trend gate.
Scored_(r) ==
    /\ IsAutoFeed(r)
    /\ r.payload.enabled
    /\ \/ "quality_score" \in DOMAIN r.payload
       \/ r.payload.reason[1] \in {"Quality protection", "Quality too low"}

\* C21: after any sequence of auto_feed_compatible_eggs calls the dedup cache
\* holds at most 100 entries and the quality-trend window at most 20 samples;
\* a full cache or window that receives a new entry loses exactly its oldest
\* entry and keeps the order of the others.
C21_CacheAndWindowBounded ==
    [][ /\ Len(feeder.recent_content_cache) <= 100
        /\ Len(feeder'.recent_content_cache) <= 100
        /\ Len(feeder.quality_history) <= 20
        /\ Len(feeder'.quality_history) <= 20
        /\ feeder'.recent_content_cache # feeder.recent_content_cache
              => feeder'.recent_content_cache
                    = Pushed(feeder.recent_content_cache,
                             result'.args.input_text \o result'.args.output_text,
                             100)
        /\ IF Scored_(result') /\ calls' = calls + 1
           THEN feeder'.quality_history
                    = Pushed(feeder.quality_history,
                             calculate_quality_score(result'.args.input_text,
                                                     result'.args.output_text,
                                                     result'.args.command_context),
                             20)
           ELSE feeder'.quality_history = feeder.quality_history ]_vars

\* A full cache and a full window have taken one more entry: the first
\* interaction of the series has left the cache, the second is its oldest.
C21_Witness ==
    /\ IsAutoFeed(result)
    /\ result.payload.fed_eggs # {}
    /\ Len(feeder.recent_content_cache) = 100
    /\ feeder.recent_content_cache[1]
         = Numbered(2).input_text \o Numbered(2).output_text
    /\ feeder.recent_content_cache[100]
         = result.args.input_text \o result.args.output_text
    /\ Len(feeder.quality_history) = 20
    /\ eggs["academic-writer"].total_examples = 101

\* C22: a call of auto_feed_compatible_eggs appends the combined content to
\* the dedup cache exactly once if at least one egg was fed in that call,
\* however many were fed, and leaves the cache unchanged if no egg was fed,
\* also when all gates pass but no egg is compatible.
C22_CachedOncePerFeedingCall ==
    [][(IsAutoFeed(result') /\ calls' = calls + 1) =>
          IF \E n \in DOMAIN eggs : eggs'[n] # eggs[n]
          THEN feeder'.recent_content_cache
                  = Pushed(feeder.recent_content_cache,
                           result'.args.input_text \o result'.args.output_text,
                           100)
          ELSE feeder'.recent_content_cache = feeder.recent_content_cache]_vars

\* One call has fed two eggs and the cache holds its content once.
C22_Witness ==
    /\ IsAutoFeed(result)
    /\ Cardinality({n \in DOMAIN eggs :
                      /\ eggs[n].training_examples # <<>>
                      /\ eggs[n].metadata.last_fed = isoformat(now - 1)}) = 2
    /\ calls = 1
    /\ feeder.recent_content_cache
         = << result.args.input_text \o result.args.output_text >>

\* All gates passed and the farm holds eggs, none of them compatible: nothing
\* was cached.
C22_NoneCompatible ==
    /\ GatesPassed(result)
    /\ result.payload.fed_eggs = {}
    /\ DOMAIN eggs # {}
    /\ feeder.recent_content_cache = <<>>

\* C23: the quality-trend gate rejects a call if and only if, after the new
\* score is pushed, the window holds at least 15 samples and the mean of its 5
\* most recent samples is at least 0.3 lower than the mean of the 10 samples
\* before them; with fewer than 15 samples it never rejects.
C23_TrendGateNeedsFifteen ==
    [][(Scored_(result') /\ calls' = calls + 1) =>
          LET window == feeder'.quality_history
              size == Len(window)
          IN  ( /\ "reason" \in DOMAIN result'.payload
                /\ result'.payload.reason[1] = "Quality protection" )
              <=> /\ size >= 15
                  /\ 5 * Sum(SubSeq(window, size - 14, size - 5))
                       - 10 * Sum(SubSeq(window, size - 4, size))
                       >= 3 * 50]_vars

\* The pattern occurs in the text when both are compared in lower case.
InAnyCase(pattern, text) ==
    \E i \in DOMAIN text :
        \/ Lower(text[i]) = Lower(pattern)
        \/ /\ Lower(text[i]) \in DOMAIN Embedded
           /\ Lower(pattern) \in Embedded[Lower(text[i])]

\* C24: detect_skills reports a skill if and only if at least 20% of the
\* patterns of that skill, and at least one, occur in the text compared
\* case-insensitively; the patterns written in upper case (IEEE, TABLE,
\* FIGURE, API) count when the text holds them in any letter case.
C24_DetectionIgnoresCase ==
    result.op = "detect_skills" =>
        \A skill \in DOMAIN skill_patterns :
            LET matches == Cardinality({i \in DOMAIN skill_patterns[skill] :
                              InAnyCase(skill_patterns[skill][i], result.args)})
            IN  (\E i \in DOMAIN result.payload : result.payload[i] = skill)
                    <=> (matches >= 1 /\ 5 * matches >= Len(skill_patterns[skill]))

\* Some long input word occurs in more than 20% of the examples.
Overingested(examples) ==
    \E w \in UNION {WordSet(examples[i].input) : i \in DOMAIN examples} :
        /\ LongerThanFour(w)
        /\ 5 * Cardinality({i \in DOMAIN examples : w \in WordSet(examples[i].input)})
             > Len(examples)

\* C25: check_data_health reports the overingestion warning and a
\* freshness_score of 0.5 if and only if some input word longer than 4
\* characters occurs in more than 20% of the most recent 100 examples (of all
\* examples when there are fewer), whatever the size of the egg; otherwise the
\* freshness_score is 1.0.
C25_OveringestionOverRecentExamples ==
    result.op = "check_data_health" =>
        LET recent == LastOf(eggs[result.egg_name].training_examples,
                             FreshnessExamples)
            warned == \E i \in DOMAIN result.payload.warnings :
                         result.payload.warnings[i]
                           = "Overingestion detected - similar contexts repeated"
        IN  /\ warned <=> Overingested(recent)
            /\ result.payload.freshness_score
                 = IF Overingested(recent) THEN 5 ELSE 10

\* C26: the diversity_score is the fraction of the 7 registry skills that
\* are a tag of at least one example, so it lies between 0 and 1 and tags
\* outside the registry do not raise it; the low-diversity warning is raised
\* exactly when fewer than 30% of the registry skills are represented.
C26_DiversityCountsRegistrySkills ==
    (result.op = "check_data_health"
       /\ eggs[result.egg_name].training_examples # <<>>) =>
        LET examples == eggs[result.egg_name].training_examples
            represented ==
                {s \in Registry : \E i \in DOMAIN examples :
                    \E k \in DOMAIN examples[i].skill_tags :
                        examples[i].skill_tags[k] = s}
            score == result.payload.diversity_score
            warned == \E i \in DOMAIN result.payload.warnings :
                         result.payload.warnings[i]
                           = "Low skill diversity - risk of overfitting"
        IN  /\ score.num * Cardinality(Registry)
                 = Cardinality(represented) * score.den
            /\ score.num <= score.den
            /\ warned <=> 10 * Cardinality(represented) < 3 * Cardinality(Registry)

\* C27: in every step of spawn, feed and hatch operations on a farm, an
\* egg's total_examples and each specialization's examples_collected never
\* decrease, the previous training_examples are the beginning of the new ones,
\* each previous quality_scores list is the beginning of the new one, and the
\* examples already stored are not modified.
C27_CountersAndListsOnlyGrow ==
    [][\A n \in DOMAIN eggs :
          /\ n \in DOMAIN eggs'
          /\ eggs'[n].total_examples >= eggs[n].total_examples
          /\ IsPrefix(eggs[n].training_examples, eggs'[n].training_examples)
          /\ \A s \in DOMAIN eggs[n].specializations :
                /\ s \in DOMAIN eggs'[n].specializations
                /\ eggs'[n].specializations[s].examples_collected
                      >= eggs[n].specializations[s].examples_collected
                /\ IsPrefix(eggs[n].specializations[s].quality_scores,
                            eggs'[n].specializations[s].quality_scores)]_vars

\* A feed that added a second example and a second score to a specialization.
C27_Witness ==
    /\ result.op = "feed_egg"
    /\ result.payload.success
    /\ Len(eggs[result.egg_name].training_examples) >= 2
    /\ \E s \in Registry :
          Len(eggs[result.egg_name].specializations[s].quality_scores) >= 2

\* C30: hatch succeeds at most once per egg: it succeeds only on an egg that
\* is not hatched, on a hatched egg it returns failure and leaves the egg and
\* its file unchanged, and hatched never returns from true to false.
C30_HatchesAtMostOnce ==
    [][\A n \in DOMAIN eggs :
          /\ (HatchCalledOn(n) /\ result'.payload.success) =>
                /\ ~eggs[n].metadata.hatched
                /\ eggs'[n].metadata.hatched
          /\ eggs[n].metadata.hatched =>
                /\ n \in DOMAIN eggs'
                /\ eggs'[n].metadata.hatched
                /\ eggs'[n].metadata.hatch_date = eggs[n].metadata.hatch_date
                /\ eggs'[n].metadata.model_path = eggs[n].metadata.model_path
                /\ HatchCalledOn(n) =>
                      /\ ~result'.payload.success
                      /\ eggs'[n] = eggs[n]
                      /\ files' = files]_vars

\* A refused hatch on an egg that is hatched.
C30_Witness ==
    /\ result.op = "hatch_egg"
    /\ ~result.payload.success
    /\ result.egg_name \in DOMAIN eggs
    /\ eggs[result.egg_name].metadata.hatched

Unhealthy(egg) == check_data_health(egg).status = "unhealthy"

\* C28: an egg whose check_data_health status is unhealthy is changed by no
\* call of auto_feed_compatible_eggs, in memory or in its file: it is not
\* auto-fed and stays unhealthy.
C28_UnhealthyEggIsNeverAutoFed ==
    [][\A n \in DOMAIN eggs :
          (Unhealthy(eggs[n]) /\ IsAutoFeed(result') /\ calls' = calls + 1) =>
              /\ n \in DOMAIN eggs'
              /\ eggs'[n] = eggs[n]
              /\ files'[n] = files[n]
              /\ Unhealthy(eggs'[n])
              /\ "fed_eggs" \in DOMAIN result'.payload
                    => \A fed \in result'.payload.fed_eggs : fed.name # n]_vars

\* A call that passed every gate and fed another egg, on a farm with an
\* unhealthy egg whose focus areas hold a detected skill; that egg still holds
\* its two examples.
C28_Witness ==
    /\ GatesPassed(result)
    /\ \E n \in DOMAIN eggs :
          /\ Unhealthy(eggs[n])
          /\ ~eggs[n].metadata.hatched
          /\ Overlap(detect_skills(result.args.input_text \o result.args.output_text),
                     eggs[n])
          /\ result.payload.fed_eggs # {}
          /\ \A fed \in result.payload.fed_eggs : fed.name # n
          /\ eggs[n].total_examples = 2

\* C29: calculate_quality_score returns at least 7.0 and at most 9.5 for
\* every input, output and context, so a feeder with the default threshold of
\* 6.0 rejects no call of auto_feed_compatible_eggs as of too low a quality.
C29_ScoreWithinRange ==
    IsAutoFeed(result) =>
        LET score == calculate_quality_score(result.args.input_text,
                                             result.args.output_text,
                                             result.args.command_context)
        IN  /\ score >= 70
            /\ score <= 95
            /\ "quality_score" \in DOMAIN result.payload
                  => result.payload.quality_score = score
            /\ feeder.quality_threshold = 60
                  => ~( /\ "reason" \in DOMAIN result.payload
                        /\ result.payload.reason[1] = "Quality too low" )

\* A call with the lowest score that two detected indicators allow passed the
\* quality gate of a feeder with the default threshold and fed the egg.
C29_Witness ==
    /\ GatesPassed(result)
    /\ feeder.quality_threshold = 60
    /\ result.payload.quality_score = 77
    /\ result.payload.fed_eggs # {}

====
